---- MODULE Spec2Model ----
(***************************************************************************)
(* Operational resilience layer of laneMC: the circuit breaker             *)
(* (server/services/circuit-breaker), the graceful degradation service     *)
(* and the caching service, as state machines over a millisecond clock.    *)
(***************************************************************************)
EXTENDS Integers, Sequences, FiniteSets, TLC

VARIABLES
    now,        \* Date.now(), in milliseconds
    cfg,        \* the CircuitBreaker's config
    cb,         \* the fields of one CircuitBreaker instance
    calls,      \* the execute() calls in flight, by slot
    opInvoked,  \* how many times the wrapped operation has been invoked
    consec,     \* failed execute() completions since the last success or reset
    probeOk,    \* successful completions since the breaker last became HALF_OPEN
    cbEvent,    \* the last step taken on the breaker
    gdCache,    \* GracefulDegradationService.cache: key -> {data, timestamp}
    gdCalls,    \* the executeWithFallback calls, by slot
    gdStarted,  \* how many executeWithFallback calls have been made
    gdOutcome,  \* how the executeWithFallback call that ended last ended
    gdLast,     \* per cache key, the latest successful primary result and its time
    ncData,     \* the NodeCache instance's entries: key -> {v, t}
    csStats,    \* CacheService.stats of the namespace: hits, misses
    csCalls,    \* the getCachedResult calls awaiting their producer, by slot
    csOps,      \* how many CacheService operations have been called
    csOutcome,  \* how the CacheService operation that ended last ended
    csLastSet,  \* per key, the latest successful set not deleted or flushed since
    csEvent,    \* the last step taken on the cache
    ab,         \* the analyzeAccountBudgets call in progress
    abOps,      \* how many analyzeAccountBudgets calls have been made
    abOutcome,  \* how the analyzeAccountBudgets call that ended last ended
    hs,         \* a calculateHealthScore call: the issues detected, the result
    ba,         \* a performSurgicalAnalysis call: its params, the analysis
    rl,         \* a calculateRiskLevel call: its arguments, the level
    pr,         \* a getCrossAccountPriorities producer run: accounts, priorities
    av,         \* the accessor calls made and the availability last reported
    au,         \* auth: the token blacklist and the last request's outcome
    st,         \* a chat stream request: the stream's phase, the callbacks run
    di          \* a detectAccountIssues call: its stage, inputs, issues and result

cbVars == <<cfg, cb, calls, opInvoked, consec, probeOk, cbEvent>>

gdVars == <<gdCache, gdCalls, gdStarted, gdOutcome, gdLast>>

csVars == <<ncData, csStats, csCalls, csOps, csOutcome, csLastSet, csEvent>>

abVars == <<ab, abOps, abOutcome>>

fnVars == <<hs, ba, rl>>

appVars == <<pr, av, au, st, di>>

\* What the steps of one service leave alone.
otherThanCB == <<cfg, gdVars, csVars, abVars, fnVars, appVars>>
otherThanGD == <<cbVars, csVars, abVars, fnVars, appVars>>
otherThanCS == <<cbVars, gdVars, abVars, fnVars, appVars>>
otherThanAB == <<cbVars, gdVars, csCalls, csOps, csOutcome, csEvent, fnVars, appVars>>
otherThanFn == <<now, cbVars, gdVars, csVars, abVars, appVars>>
otherThanPR == <<now, cbVars, gdVars, csVars, abVars, fnVars, av, au, st, di>>
otherThanAV ==
    <<now, cfg, calls, opInvoked, consec, probeOk, cbEvent,
      gdCalls, gdStarted, gdOutcome, gdLast, csVars, abVars, fnVars, pr, au, st, di>>
otherThanAU == <<now, cbVars, gdVars, csVars, abVars, fnVars, pr, av, st, di>>
otherThanST == <<now, cbVars, gdVars, csVars, abVars, fnVars, pr, av, au, di>>
otherThanDI == <<now, cbVars, gdVars, csVars, abVars, fnVars, pr, av, au, st>>

vars == <<now, cfg, cb, calls, opInvoked, consec, probeOk, cbEvent,
          gdCache, gdCalls, gdStarted, gdOutcome, gdLast,
          ncData, csStats, csCalls, csOps, csOutcome, csLastSet, csEvent,
          ab, abOps, abOutcome, hs, ba, rl, pr, av, au, st, di>>

\* The value of an optional number field that is not set (undefined).
Undefined == -1

(***************************************************************************)
(* Circuit breaker: configuration and bounds of the exploration.           *)
(***************************************************************************)
\* CircuitBreakerManager.getBreaker's defaults.
defaultConfig ==
    [failureThreshold |-> 5, recoveryTimeout |-> 60000, monitoringPeriod |-> 300000,
     successThreshold |-> 3, timeout |-> 30000]

\* A breaker made with getBreaker(name, config) for a slow service: its
\* operations are given more time than the circuit stays open.
slowServiceConfig ==
    [failureThreshold |-> 2, recoveryTimeout |-> 30000, monitoringPeriod |-> 300000,
     successThreshold |-> 2, timeout |-> 90000]

\* this.config.failureThreshold, ...
failureThreshold == cfg.failureThreshold
recoveryTimeout == cfg.recoveryTimeout
successThreshold == cfg.successThreshold
timeout == cfg.timeout

CBTickMs == 30000       \* the clock advances in steps of this many ms
MaxCBTicks == 3         \* the clock stops after this many steps
MaxTotalCalls == 8      \* execute() is called at most this many times
MaxInFlight == 2        \* execute() calls that may overlap

StartTime == CBTickMs

CallIds == 1..MaxInFlight

IdleCall == [status |-> "idle", start |-> 0, admittedIn |-> "NONE"]

\* CircuitBreaker's field initialisers.
NewBreaker ==
    [state |-> "CLOSED", failures |-> 0, successes |-> 0,
     lastFailureTime |-> Undefined, lastSuccessTime |-> Undefined,
     totalCalls |-> 0, rejectedCalls |-> 0, nextAttempt |-> Undefined]

\* A JavaScript number used as a condition: undefined and 0 are falsy.
TruthyNumber(n) == n # Undefined /\ n # 0

shouldAttemptResetStrict(b, t) ==
    IF TruthyNumber(b.nextAttempt) THEN t > b.nextAttempt ELSE FALSE

\* CircuitBreaker.shouldAttemptReset
shouldAttemptReset(b, t) ==
    IF TruthyNumber(b.nextAttempt) THEN t >= b.nextAttempt ELSE FALSE

onSuccessCloseAtOnce(b, t) ==
    LET b1 == [b EXCEPT !.lastSuccessTime = t, !.failures = 0]
    IN  IF b1.state = "HALF_OPEN"
        THEN [b1 EXCEPT !.state = "CLOSED", !.successes = 0]
        ELSE b1

onSuccessKeepsFailures(b, t) ==
    LET b1 == [b EXCEPT !.lastSuccessTime = t]
    IN  IF b1.state = "HALF_OPEN"
        THEN LET b2 == [b1 EXCEPT !.successes = @ + 1]
             IN  IF b2.successes >= successThreshold
                 THEN [b2 EXCEPT !.state = "CLOSED", !.successes = 0]
                 ELSE b2
        ELSE b1

\* CircuitBreaker.onSuccess
onSuccess(b, t) ==
    LET b1 == [b EXCEPT !.lastSuccessTime = t, !.failures = 0]
    IN  IF b1.state = "HALF_OPEN"
        THEN LET b2 == [b1 EXCEPT !.successes = @ + 1]
             IN  IF b2.successes >= successThreshold
                 THEN [b2 EXCEPT !.state = "CLOSED", !.successes = 0]
                 ELSE b2
        ELSE b1

onFailureKeepProbing(b, t) ==
    LET b1 == [b EXCEPT !.failures = @ + 1, !.lastFailureTime = t]
    IN  IF b1.state = "CLOSED" /\ b1.failures >= failureThreshold
        THEN [b1 EXCEPT !.state = "OPEN", !.nextAttempt = t + recoveryTimeout]
        ELSE b1

onFailureOffByOne(b, t) ==
    LET b1 == [b EXCEPT !.failures = @ + 1, !.lastFailureTime = t]
    IN  IF b1.state = "HALF_OPEN"
        THEN [b1 EXCEPT !.state = "OPEN", !.successes = 0,
                        !.nextAttempt = t + recoveryTimeout]
        ELSE IF b1.state = "CLOSED" /\ b1.failures > failureThreshold
        THEN [b1 EXCEPT !.state = "OPEN", !.nextAttempt = t + recoveryTimeout]
        ELSE b1

onFailureNoNextAttempt(b, t) ==
    LET b1 == [b EXCEPT !.failures = @ + 1, !.lastFailureTime = t]
    IN  IF b1.state = "HALF_OPEN"
        THEN [b1 EXCEPT !.state = "OPEN", !.successes = 0,
                        !.nextAttempt = t + recoveryTimeout]
        ELSE IF b1.state = "CLOSED" /\ b1.failures >= failureThreshold
        THEN [b1 EXCEPT !.state = "OPEN"]
        ELSE b1

\* CircuitBreaker.onFailure
onFailure(b, t) ==
    LET b1 == [b EXCEPT !.failures = @ + 1, !.lastFailureTime = t]
    IN  IF b1.state = "HALF_OPEN"
        THEN [b1 EXCEPT !.state = "OPEN", !.successes = 0,
                        !.nextAttempt = t + recoveryTimeout]
        ELSE IF b1.state = "CLOSED" /\ b1.failures >= failureThreshold
        THEN [b1 EXCEPT !.state = "OPEN", !.nextAttempt = t + recoveryTimeout]
        ELSE b1

resetCountersOnly(b) ==
    [b EXCEPT !.failures = 0, !.successes = 0, !.nextAttempt = Undefined]

\* CircuitBreaker.reset
reset(b) ==
    [b EXCEPT !.state = "CLOSED", !.failures = 0, !.successes = 0,
              !.nextAttempt = Undefined]

\* The synchronous head of CircuitBreaker.execute, up to the call of the
\* wrapped operation: the breaker after it, and whether the call goes on.
executeEntry(b, t) ==
    LET b1 == [b EXCEPT !.totalCalls = @ + 1]
    IN  IF b1.state = "OPEN"
        THEN IF shouldAttemptReset(b1, t)
             THEN [breaker |-> [b1 EXCEPT !.state = "HALF_OPEN"], admitted |-> TRUE]
             ELSE [breaker |-> [b1 EXCEPT !.rejectedCalls = @ + 1], admitted |-> FALSE]
        ELSE [breaker |-> b1, admitted |-> TRUE]

\* new CircuitBreaker(name, config)
CBInitWith(config) ==
    /\ cfg = config
    /\ cb = NewBreaker
    /\ calls = [c \in CallIds |-> IdleCall]
    /\ opInvoked = 0
    /\ consec = 0
    /\ probeOk = 0
    /\ cbEvent = [kind |-> "none", call |-> 0]

CBInit == CBInitWith(defaultConfig)

\* execute(): the call passes the state check; executeWithTimeout arms the
\* timer and invokes the wrapped operation. (The call takes the first free
\* slot: slots only name the calls in flight.)
ExecuteAdmit(c) ==
    /\ cb.totalCalls < MaxTotalCalls
    /\ calls[c].status = "idle"
    /\ \A d \in CallIds : d < c => calls[d].status # "idle"
    /\ executeEntry(cb, now).admitted
    /\ cb' = executeEntry(cb, now).breaker
    /\ calls' = [calls EXCEPT ![c] =
                    [status |-> "running", start |-> now, admittedIn |-> cb'.state]]
    /\ opInvoked' = opInvoked + 1
    /\ probeOk' = IF cb.state # "HALF_OPEN" /\ cb'.state = "HALF_OPEN" THEN 0 ELSE probeOk
    /\ cbEvent' = [kind |-> "admit", call |-> c]
    /\ UNCHANGED <<now, consec>>
    /\ UNCHANGED otherThanCB

\* execute(): the circuit is open and the call is thrown out.
ExecuteReject ==
    /\ cb.totalCalls < MaxTotalCalls
    /\ ~executeEntry(cb, now).admitted
    /\ cb' = executeEntry(cb, now).breaker
    /\ cbEvent' = [kind |-> "reject", call |-> 0]
    /\ UNCHANGED <<now, calls, opInvoked, consec, probeOk>>
    /\ UNCHANGED otherThanCB

\* The wrapped operation resolves before the timer fires: clearTimeout,
\* resolve, and execute() runs onSuccess.
OpResolves(c) ==
    /\ calls[c].status = "running"
    /\ cb' = onSuccess(cb, now)
    /\ calls' = [calls EXCEPT ![c] = IdleCall]
    /\ consec' = 0
    /\ probeOk' = IF cb.state = "HALF_OPEN" THEN probeOk + 1 ELSE probeOk
    /\ cbEvent' = [kind |-> "success", call |-> c, failuresBefore |-> cb.failures]
    /\ UNCHANGED <<now, opInvoked>>
    /\ UNCHANGED otherThanCB

\* The wrapped operation rejects before the timer fires: clearTimeout,
\* reject, and execute() runs onFailure and rethrows.
OpRejects(c) ==
    /\ calls[c].status = "running"
    /\ cb' = onFailure(cb, now)
    /\ calls' = [calls EXCEPT ![c] = IdleCall]
    /\ consec' = consec + 1
    /\ cbEvent' = [kind |-> "failure", call |-> c]
    /\ UNCHANGED <<now, opInvoked, probeOk>>
    /\ UNCHANGED otherThanCB

\* The timer of executeWithTimeout fires first: the call is rejected with the
\* timeout error and execute() runs onFailure; the operation keeps running.
TimerFires(c) ==
    /\ calls[c].status = "running"
    /\ now >= calls[c].start + timeout
    /\ cb' = onFailure(cb, now)
    /\ calls' = [calls EXCEPT ![c].status = "abandoned"]
    /\ consec' = consec + 1
    /\ cbEvent' = [kind |-> "timeout", call |-> c]
    /\ UNCHANGED <<now, opInvoked, probeOk>>
    /\ UNCHANGED otherThanCB

settledTwice(b, t) == onSuccess(b, t)

\* resolve or reject of the promise the timer has already rejected: no
\* effect, the await in execute() has completed, the breaker is as it was.
settledAfterTimeout(b, t) == b

\* The abandoned operation settles after its timeout: resolve/reject of the
\* already settled promise does nothing (clearTimeout of a fired timer).
LateSettle(c) ==
    /\ calls[c].status = "abandoned"
    /\ calls' = [calls EXCEPT ![c] = IdleCall]
    /\ cb' = settledAfterTimeout(cb, now)
    /\ cbEvent' = [kind |-> "late", call |-> c]
    /\ UNCHANGED <<now, opInvoked, consec, probeOk>>
    /\ UNCHANGED otherThanCB

\* reset(), the operator's manual reset.
Reset ==
    /\ cb' = reset(cb)
    /\ consec' = 0
    /\ cbEvent' = [kind |-> "reset", call |-> 0]
    /\ UNCHANGED <<now, calls, opInvoked, probeOk>>
    /\ UNCHANGED otherThanCB

CBTick ==
    /\ now < StartTime + MaxCBTicks * CBTickMs
    /\ now' = now + CBTickMs
    /\ cbEvent' = [kind |-> "tick", call |-> 0]
    /\ UNCHANGED <<cb, calls, opInvoked, consec, probeOk>>
    /\ UNCHANGED otherThanCB

CBNext ==
    \/ \E c \in CallIds : ExecuteAdmit(c)
    \/ ExecuteReject
    \/ \E c \in CallIds : OpResolves(c)
    \/ \E c \in CallIds : OpRejects(c)
    \/ \E c \in CallIds : TimerFires(c)
    \/ \E c \in CallIds : LateSettle(c)
    \/ Reset
    \/ CBTick

\* A breaker that is asked for a few calls only: too few to reach the failure
\* threshold, so that execute() forwards every one of them.
MaxTimedCalls == 3      \* execute() is called at most this many times

ExecuteForwarded(c) ==
    /\ cb.totalCalls < MaxTimedCalls
    /\ ExecuteAdmit(c)

TimeoutNext ==
    \/ \E c \in CallIds : ExecuteForwarded(c)
    \/ \E c \in CallIds : OpResolves(c)
    \/ \E c \in CallIds : OpRejects(c)
    \/ \E c \in CallIds : TimerFires(c)
    \/ \E c \in CallIds : LateSettle(c)
    \/ Reset
    \/ CBTick

\* setTimeout: a timer whose delay has elapsed is run by the event loop, and
\* the clock goes on (up to the end of the modelled time).
TimersRun ==
    /\ WF_vars(CBTick)
    /\ \A c \in CallIds : WF_vars(TimerFires(c))

(***************************************************************************)
(* Graceful degradation service.                                           *)
(***************************************************************************)
CACHE_TTL == 30 * 60 * 1000

GDTickMs == 900000      \* the clock advances in steps of this many ms
MaxGDTicks == 3         \* the clock stops after this many steps
MaxGDStarts == 3        \* executeWithFallback is called at most this many times
MaxGDCalls == 2         \* executeWithFallback calls that may overlap
MaxRows == 1            \* rows a storage query returns: 0..MaxRows

GDCallIds == 1..MaxGDCalls

\* The cacheKey argument when it is not passed.
NoKey == "<undefined>"

AccountsKey == "accounts_all"
CampaignsKey == "campaigns_c1"
MetricsKey == "metrics_c1_all_LAST_7_DAYS"

Accessors == {"accounts", "campaigns", "metrics"}

\* The cache key each accessor builds from its arguments.
AccessorKey(kind) ==
    CASE kind = "accounts" -> AccountsKey
      [] kind = "campaigns" -> CampaignsKey
      [] kind = "metrics" -> MetricsKey

GenericKeys == {NoKey, "", "k1"}

GDKeys == {AccountsKey, CampaignsKey, MetricsKey, "", "k1"}

\* Values that pass through executeWithFallback<T>: null, numbers, and the
\* objects (or arrays of objects) the accessors build, with the source and
\* warning of their `fallback` tag (its timestamp string is left out).
Null == [type |-> "null", n |-> 0, id |-> "", source |-> "", warning |-> ""]

NumberValue(n) == [type |-> "number", n |-> n, id |-> "", source |-> "", warning |-> ""]

GenericValues == {NumberValue(n) : n \in 0..2}

\* The result of an accessor's primary operation: rows of storage mapped
\* to objects tagged fallback: {source: 'cache', timestamp}.
AccessorPrimaryResult(kind, rows, t) ==
    [type |-> "object", n |-> rows, id |-> "db", source |-> "cache", warning |-> ""]

\* The result of an accessor's fallback operation: the demo data tagged
\* fallback: {source: 'cache', timestamp, warning}.
AccessorFallbackResult(kind, t) ==
    [type |-> "object", n |-> 1, id |-> "mock", source |-> "cache",
     warning |-> "Google Ads service is temporarily unavailable. Showing demo data."]

\* A JavaScript value used as a condition.
Truthy(v) ==
    CASE v.type = "null" -> FALSE
      [] v.type = "number" -> v.n # 0
      [] v.type = "object" -> TRUE

\* A cacheKey used as a condition: undefined and "" are falsy.
TruthyKey(k) == k # NoKey /\ k # ""

NoEntry == [present |-> FALSE, data |-> Null, timestamp |-> 0]

\* GracefulDegradationService.setCache
setCache(cache, key, data, t) ==
    [cache EXCEPT ![key] = [present |-> TRUE, data |-> data, timestamp |-> t]]

\* GracefulDegradationService.getCache: the value returned (null when
\* missing or expired) and the cache after it.
getCache(cache, key, t) ==
    IF ~cache[key].present
    THEN [value |-> Null, cache |-> cache]
    ELSE IF t - cache[key].timestamp > CACHE_TTL
    THEN [value |-> Null, cache |-> [cache EXCEPT ![key] = NoEntry]]
    ELSE [value |-> cache[key].data, cache |-> cache]

clearExpiredCacheInclusive(cache, t) ==
    [k \in DOMAIN cache |->
        IF cache[k].present /\ t - cache[k].timestamp >= CACHE_TTL
        THEN NoEntry ELSE cache[k]]

\* GracefulDegradationService.clearExpiredCache
clearExpiredCache(cache, t) ==
    [k \in DOMAIN cache |->
        IF cache[k].present /\ t - cache[k].timestamp > CACHE_TTL
        THEN NoEntry ELSE cache[k]]

\* executeWithFallback, primary failed: the lookup of lines 75-81, giving
\* whether a cached value is returned, that value, and the cache after it.
cachedOnFailure(cache, key, t) ==
    IF TruthyKey(key)
    THEN LET got == getCache(cache, key, t)
         IN  [hit |-> Truthy(got.value), value |-> got.value, cache |-> got.cache]
    ELSE [hit |-> FALSE, value |-> Null, cache |-> cache]

\* executeWithFallback, primary succeeded: the cache after lines 62-64.
cacheOnSuccess(cache, key, result, t) ==
    IF TruthyKey(key) THEN setCache(cache, key, result, t) ELSE cache

cacheOnFallbackStored(cache, key, result, t) ==
    IF TruthyKey(key) THEN setCache(cache, key, result, t) ELSE cache

\* executeWithFallback, fallback succeeded: the cache after lines 84-87
\* (the fallback result is returned, setCache is not called).
cacheOnFallback(cache, key, result, t) == cache

bothFailedThrowsLast(primaryError, fallbackError) == fallbackError

\* executeWithFallback, primary and fallback failed: the error of line 93.
bothFailed(primaryError, fallbackError) == primaryError

IdleGDCall ==
    [phase |-> "idle", kind |-> "", key |-> NoKey, primaryError |-> "",
     fallbackCalls |-> 0, usable |-> FALSE, expect |-> Null]

\* How a call ended: by "primary", "cache" or "fallback" with a result, or
\* "threw" with an error.
Outcome(call, how, result, thrown) ==
    [how |-> how, kind |-> call.kind, key |-> call.key, result |-> result,
     thrown |-> thrown, primaryError |-> call.primaryError,
     fallbackCalls |-> call.fallbackCalls, usable |-> call.usable,
     expect |-> call.expect]

GDInit ==
    /\ gdCache = [k \in GDKeys |-> NoEntry]
    /\ gdCalls = [c \in GDCallIds |-> IdleGDCall]
    /\ gdStarted = 0
    /\ gdOutcome = Outcome(IdleGDCall, "none", Null, "")
    /\ gdLast = [k \in GDKeys |-> [some |-> FALSE, value |-> Null, time |-> 0]]

PrimaryErrors == {"primary error 1", "primary error 2"}
FallbackErrors == {"fallback error"}

\* A call of executeWithFallback (kind "generic") or of one of the
\* accessors, which call it with their own closures and cache key: the
\* primary operation is invoked and awaited.
GDStart(c, kind, key) ==
    /\ gdStarted < MaxGDStarts
    /\ gdCalls[c].phase = "idle"
    /\ \A d \in GDCallIds : d < c => gdCalls[d].phase # "idle"
    /\ kind \in Accessors => key = AccessorKey(kind)
    /\ kind = "generic" => key \in GenericKeys
    /\ gdCalls' = [gdCalls EXCEPT ![c] =
                      [IdleGDCall EXCEPT !.phase = "primary", !.kind = kind, !.key = key]]
    /\ gdStarted' = gdStarted + 1
    /\ UNCHANGED <<now, gdCache, gdOutcome, gdLast>>
    /\ UNCHANGED otherThanGD

\* The primary operation resolves with `result`: it is cached under a
\* truthy cacheKey and returned.
PrimarySucceeds(c, result) ==
    /\ gdCalls[c].phase = "primary"
    /\ gdCache' = cacheOnSuccess(gdCache, gdCalls[c].key, result, now)
    /\ gdOutcome' = Outcome(gdCalls[c], "primary", result, "")
    /\ gdCalls' = [gdCalls EXCEPT ![c] = IdleGDCall]
    /\ gdLast' = IF gdCalls[c].key \in {NoKey, ""} THEN gdLast
                 ELSE [gdLast EXCEPT ![gdCalls[c].key] =
                          [some |-> TRUE, value |-> result, time |-> now]]
    /\ UNCHANGED <<now, gdStarted>>
    /\ UNCHANGED otherThanGD

\* What the store should serve for a given (non-empty) `key` at time t: the
\* latest successful primary result, when there is one that is at most
\* CACHE_TTL old.
Usable(key, t) ==
    key \notin {NoKey, ""} /\ gdLast[key].some /\ t - gdLast[key].time <= CACHE_TTL

\* The primary operation rejects with error e: the cache is consulted, and
\* either the cached value is returned or the fallback operation is invoked.
PrimaryFails(c, e) ==
    /\ gdCalls[c].phase = "primary"
    /\ LET look == cachedOnFailure(gdCache, gdCalls[c].key, now)
           seen == [gdCalls[c] EXCEPT
                       !.primaryError = e,
                       !.usable = Usable(gdCalls[c].key, now),
                       !.expect = IF Usable(gdCalls[c].key, now)
                                  THEN gdLast[gdCalls[c].key].value ELSE Null]
       IN  /\ gdCache' = look.cache
           /\ IF look.hit
              THEN /\ gdOutcome' = Outcome(seen, "cache", look.value, "")
                   /\ gdCalls' = [gdCalls EXCEPT ![c] = IdleGDCall]
              ELSE /\ gdOutcome' = gdOutcome
                   /\ gdCalls' = [gdCalls EXCEPT ![c] =
                         [seen EXCEPT !.phase = "fallback", !.fallbackCalls = @ + 1]]
    /\ UNCHANGED <<now, gdStarted, gdLast>>
    /\ UNCHANGED otherThanGD

\* The fallback operation resolves with `result`, which is returned.
FallbackSucceeds(c, result) ==
    /\ gdCalls[c].phase = "fallback"
    /\ gdCache' = cacheOnFallback(gdCache, gdCalls[c].key, result, now)
    /\ gdOutcome' = Outcome(gdCalls[c], "fallback", result, "")
    /\ gdCalls' = [gdCalls EXCEPT ![c] = IdleGDCall]
    /\ UNCHANGED <<now, gdStarted, gdLast>>
    /\ UNCHANGED otherThanGD

\* The fallback operation rejects with error f: the primary error is thrown.
\* (The accessors' fallback operations only build a literal.)
FallbackFails(c, f) ==
    /\ gdCalls[c].phase = "fallback"
    /\ gdCalls[c].kind = "generic"
    /\ gdOutcome' = Outcome(gdCalls[c], "threw", Null,
                            bothFailed(gdCalls[c].primaryError, f))
    /\ gdCalls' = [gdCalls EXCEPT ![c] = IdleGDCall]
    /\ UNCHANGED <<now, gdCache, gdStarted, gdLast>>
    /\ UNCHANGED otherThanGD

\* The setInterval sweep.
Sweep ==
    /\ gdCache' = clearExpiredCache(gdCache, now)
    /\ gdCache' # gdCache
    /\ UNCHANGED <<now, gdCalls, gdStarted, gdOutcome, gdLast>>
    /\ UNCHANGED otherThanGD

GDTick ==
    /\ now < StartTime + MaxGDTicks * GDTickMs
    /\ now' = now + GDTickMs
    /\ UNCHANGED gdVars
    /\ UNCHANGED otherThanGD

\* The values a call's primary operation may resolve with.
PrimaryResults(c) ==
    IF gdCalls[c].kind = "generic"
    THEN GenericValues
    ELSE {AccessorPrimaryResult(gdCalls[c].kind, rows, now) : rows \in 0..MaxRows}

\* The values a call's fallback operation may resolve with.
FallbackResults(c) ==
    IF gdCalls[c].kind = "generic"
    THEN GenericValues
    ELSE {AccessorFallbackResult(gdCalls[c].kind, now)}

\* executeWithFallback called directly, with any operations and cache key.
GDNext ==
    \/ \E c \in GDCallIds, key \in GenericKeys : GDStart(c, "generic", key)
    \/ \E c \in GDCallIds : \E r \in PrimaryResults(c) : PrimarySucceeds(c, r)
    \/ \E c \in GDCallIds, e \in PrimaryErrors : PrimaryFails(c, e)
    \/ \E c \in GDCallIds : \E r \in FallbackResults(c) : FallbackSucceeds(c, r)
    \/ \E c \in GDCallIds, f \in FallbackErrors : FallbackFails(c, f)
    \/ Sweep
    \/ GDTick

\* executeWithFallback called through get*WithFallback.
GDAccessorNext ==
    \/ \E c \in GDCallIds, kind \in Accessors : GDStart(c, kind, AccessorKey(kind))
    \/ \E c \in GDCallIds : \E r \in PrimaryResults(c) : PrimarySucceeds(c, r)
    \/ \E c \in GDCallIds, e \in PrimaryErrors : PrimaryFails(c, e)
    \/ \E c \in GDCallIds : \E r \in FallbackResults(c) : FallbackSucceeds(c, r)
    \/ Sweep
    \/ GDTick

(***************************************************************************)
(* Caching service: CacheService over one node-cache instance (one         *)
(* namespace). TTLs are in seconds, the clock in milliseconds.             *)
(***************************************************************************)
stdTTL == 600           \* the namespace's configured ttl
maxKeys == 1            \* the namespace's configured maxKeys

CacheTickMs == 300000   \* the clock advances in steps of this many ms
MaxCacheTicks == 3      \* the clock stops after this many steps
MaxCacheOps == 4        \* get, set, del, flush, resetStats are called at most this many times
MaxCachedResults == 3   \* getCachedResult is called at most this many times
MaxCacheCalls == 2      \* getCachedResult calls that may overlap

CSCallIds == 1..MaxCacheCalls

CacheKeys == {"k1", "k2"}

\* The values stored (defined values: undefined is get's answer for a miss).
CacheValues == {1, 2}

\* get's result for a missing key (undefined).
Absent == 0

\* The ttl arguments callers pass: none, 0, and the 300 seconds of
\* analyzeAccountBudgets.
TtlArgs == {Undefined, 0, 300}

\* The ttl arguments getCachedResult's callers pass: none, or seconds.
CachedResultTtlArgs == {Undefined, 300}

NoCacheEntry == [present |-> FALSE, v |-> Absent, t |-> 0]

\* node-cache's stats.keys.
KeyCount(data) == Cardinality({k \in DOMAIN data : data[k].present})

\* node-cache _wrap: the entry's livetime t (0: never expires).
wrap(value, ttl, t) ==
    [present |-> TRUE, v |-> value,
     t |-> IF ttl = 0 THEN 0
           ELSE IF ttl # Undefined THEN t + ttl * 1000
           ELSE IF stdTTL = 0 THEN 0 ELSE t + stdTTL * 1000]

\* node-cache _check: the entry is still alive at time t.
check(entry, t) == ~(entry.t # 0 /\ entry.t < t)

\* node-cache get: the value (undefined when missing or expired) and the
\* data after it (deleteOnExpire).
ncGet(data, key, t) ==
    IF data[key].present /\ check(data[key], t)
    THEN [value |-> data[key].v, data |-> data]
    ELSE [value |-> Absent, data |-> [data EXCEPT ![key] = NoCacheEntry]]

\* node-cache set: throws ECACHEFULL when stats.keys >= maxKeys, else
\* stores the wrapped value and returns true.
ncSet(data, key, value, ttl, t) ==
    IF KeyCount(data) >= maxKeys
    THEN [ok |-> FALSE, data |-> data]
    ELSE [ok |-> TRUE, data |-> [data EXCEPT ![key] = wrap(value, ttl, t)]]

\* node-cache _checkData, the checkperiod sweep.
checkData(data, t) ==
    [k \in DOMAIN data |->
        IF data[k].present /\ ~check(data[k], t) THEN NoCacheEntry ELSE data[k]]

ttlArgIgnored(ttl) == 0

\* CacheService.set: the ttl handed to node-cache, `ttl || 0`.
ttlArg(ttl) == IF ttl = Undefined \/ ttl = 0 THEN 0 ELSE ttl

\* CacheService.get: value, data and stats after it.
get(data, stats, key, t) ==
    LET got == ncGet(data, key, t)
    IN  [value |-> got.value, data |-> got.data,
         stats |-> IF got.value # Absent
                   THEN [stats EXCEPT !.hits = @ + 1]
                   ELSE [stats EXCEPT !.misses = @ + 1]]

\* CacheService.set
set(data, key, value, ttl, t) == ncSet(data, key, value, ttlArg(ttl), t)

producerFailureCached(data, key, t) == [data EXCEPT ![key] = wrap(Absent, 0, t)]

\* CacheService.getCachedResult, `await operation()` threw: the data after
\* it (line 134 is not reached).
producerFailure(data, key, t) == data

producerErrorWrapped(e) == "Cache operation failed"

\* CacheService.getCachedResult, `await operation()` threw: the error the
\* caller gets.
producerError(e) == e

\* The time an entry written with `ttl` at `time` is due to expire: ttl
\* seconds after its insertion (the namespace's ttl when none is passed).
DueTime(w) == w.time + 1000 * (IF w.ttl = Undefined THEN stdTTL ELSE w.ttl)

\* What is known of key k when an operation reads it at time t: the ttl of
\* its latest write (Undefined too when it was never written), the value
\* written, and whether t is before or after that write's due time.
Known(k, t) ==
    [written |-> csLastSet[k].some, ttl |-> csLastSet[k].ttl,
     value |-> csLastSet[k].value,
     before |-> csLastSet[k].some /\ t < DueTime(csLastSet[k]),
     after |-> csLastSet[k].some /\ t > DueTime(csLastSet[k])]

NothingKnown ==
    [written |-> FALSE, ttl |-> Undefined, value |-> Absent,
     before |-> FALSE, after |-> FALSE]

IdleCSCall ==
    [phase |-> "idle", key |-> "", ttl |-> Undefined, known |-> NothingKnown,
     alone |-> FALSE]

\* No getCachedResult call is between its get and its set.
NoneInFlight == \A c \in DOMAIN csCalls : csCalls[c].phase = "idle"

NoOutcome ==
    [op |-> "none", key |-> "", how |-> "", value |-> Absent, error |-> "",
     producerCalls |-> 0, known |-> NothingKnown, alone |-> FALSE,
     kept |-> FALSE, stored |-> FALSE]

NoSet == [some |-> FALSE, value |-> Absent, time |-> 0, ttl |-> Undefined]

ProducerErrors == {"producer error 1", "producer error 2"}

CSInit ==
    /\ ncData = [k \in CacheKeys |-> NoCacheEntry]
    /\ csStats = [hits |-> 0, misses |-> 0]
    /\ csCalls = [c \in CSCallIds |-> IdleCSCall]
    /\ csOps = 0
    /\ csOutcome = NoOutcome
    /\ csLastSet = [k \in CacheKeys |-> NoSet]
    /\ csEvent = [kind |-> "none", key |-> "", call |-> 0, error |-> ""]

\* CacheService.get(namespace, k)
CacheGet(k) ==
    /\ csOps < MaxCacheOps
    /\ LET r == get(ncData, csStats, k, now)
       IN  /\ ncData' = r.data
           /\ csStats' = r.stats
           /\ csOutcome' = [NoOutcome EXCEPT
                  !.op = "get", !.key = k, !.how = "returned", !.value = r.value,
                  !.known = Known(k, now)]
    /\ csOps' = csOps + 1
    /\ csEvent' = [kind |-> "get", key |-> k, call |-> 0, error |-> ""]
    /\ UNCHANGED <<now, csCalls, csLastSet>>
    /\ UNCHANGED otherThanCS

\* CacheService.set(namespace, k, v, ttl)
CacheSet(k, v, ttl) ==
    /\ csOps < MaxCacheOps
    /\ LET r == set(ncData, k, v, ttl, now)
       IN  /\ ncData' = r.data
           /\ csOutcome' = [NoOutcome EXCEPT
                  !.op = "set", !.key = k, !.value = v,
                  !.how = IF r.ok THEN "returned" ELSE "threw",
                  !.error = IF r.ok THEN "" ELSE "ECACHEFULL"]
           /\ csLastSet' = IF r.ok
                           THEN [csLastSet EXCEPT ![k] =
                                    [some |-> TRUE, value |-> v, time |-> now, ttl |-> ttl]]
                           ELSE csLastSet
    /\ csOps' = csOps + 1
    /\ csEvent' = [kind |-> "set", key |-> k, call |-> 0, error |-> ""]
    /\ UNCHANGED <<now, csStats, csCalls>>
    /\ UNCHANGED otherThanCS

\* CacheService.del(namespace, k)
CacheDel(k) ==
    /\ csOps < MaxCacheOps
    /\ ncData' = [ncData EXCEPT ![k] = NoCacheEntry]
    /\ csLastSet' = [csLastSet EXCEPT ![k] = NoSet]
    /\ csOutcome' = [NoOutcome EXCEPT !.op = "del", !.key = k, !.how = "returned"]
    /\ csOps' = csOps + 1
    /\ csEvent' = [kind |-> "del", key |-> k, call |-> 0, error |-> ""]
    /\ UNCHANGED <<now, csStats, csCalls>>
    /\ UNCHANGED otherThanCS

\* CacheService.flush(namespace)
CacheFlush ==
    /\ csOps < MaxCacheOps
    /\ ncData' = [k \in CacheKeys |-> NoCacheEntry]
    /\ csLastSet' = [k \in CacheKeys |-> NoSet]
    /\ csOutcome' = [NoOutcome EXCEPT !.op = "flush", !.how = "returned"]
    /\ csOps' = csOps + 1
    /\ csEvent' = [kind |-> "flush", key |-> "", call |-> 0, error |-> ""]
    /\ UNCHANGED <<now, csStats, csCalls>>
    /\ UNCHANGED otherThanCS

\* CacheService.resetStats(namespace)
ResetStats ==
    /\ csOps < MaxCacheOps
    /\ csStats' = [hits |-> 0, misses |-> 0]
    /\ csOutcome' = [NoOutcome EXCEPT !.op = "resetStats", !.how = "returned"]
    /\ csOps' = csOps + 1
    /\ csEvent' = [kind |-> "resetStats", key |-> "", call |-> 0, error |-> ""]
    /\ UNCHANGED <<now, ncData, csCalls, csLastSet>>
    /\ UNCHANGED otherThanCS

\* CacheService.getCachedResult(namespace, k, operation, ttl), up to its
\* return on a hit or its call of operation() on a miss.
GetCachedResult(c, k, ttl) ==
    /\ csOps < MaxCachedResults
    /\ csCalls[c].phase = "idle"
    /\ \A d \in CSCallIds : d < c => csCalls[d].phase # "idle"
    /\ LET r == get(ncData, csStats, k, now)
       IN  /\ ncData' = r.data
           /\ csStats' = r.stats
           /\ IF r.value # Absent
              THEN /\ csOutcome' = [NoOutcome EXCEPT
                          !.op = "getCachedResult", !.key = k, !.how = "returned",
                          !.value = r.value, !.producerCalls = 0,
                          !.known = Known(k, now), !.alone = NoneInFlight]
                   /\ csCalls' = [d \in CSCallIds |-> [csCalls[d] EXCEPT !.alone = FALSE]]
                   /\ csEvent' = [kind |-> "hit", key |-> k, call |-> c, error |-> ""]
              ELSE /\ csOutcome' = csOutcome
                   /\ csCalls' = [d \in CSCallIds |->
                          IF d = c
                          THEN [phase |-> "producing", key |-> k, ttl |-> ttl,
                                known |-> Known(k, now), alone |-> NoneInFlight]
                          ELSE [csCalls[d] EXCEPT !.alone = FALSE]]
                   /\ csEvent' = [kind |-> "miss", key |-> k, call |-> c, error |-> ""]
    /\ csOps' = csOps + 1
    /\ UNCHANGED <<now, csLastSet>>
    /\ UNCHANGED otherThanCS

\* The producer resolves with v: getCachedResult sets it and returns it, or
\* fails with the error set throws.
ProducerResolves(c, v) ==
    /\ csCalls[c].phase = "producing"
    /\ LET k == csCalls[c].key
           r == set(ncData, k, v, csCalls[c].ttl, now)
       IN  /\ ncData' = r.data
           /\ csOutcome' = [NoOutcome EXCEPT
                  !.op = "getCachedResult", !.key = k, !.value = v,
                  !.producerCalls = 1, !.known = csCalls[c].known,
                  !.alone = csCalls[c].alone,
                  !.how = IF r.ok THEN "returned" ELSE "threw",
                  !.error = IF r.ok THEN "" ELSE "ECACHEFULL",
                  !.stored = r.data[k].present /\ r.data[k].v = v]
           /\ csLastSet' = IF r.ok
                           THEN [csLastSet EXCEPT ![k] =
                                    [some |-> TRUE, value |-> v, time |-> now,
                                     ttl |-> csCalls[c].ttl]]
                           ELSE csLastSet
           /\ csEvent' = [kind |-> "produced", key |-> k, call |-> c, error |-> ""]
    /\ csCalls' = [csCalls EXCEPT ![c] = IdleCSCall]
    /\ UNCHANGED <<now, csStats, csOps>>
    /\ UNCHANGED otherThanCS

\* The producer rejects with e: getCachedResult rejects with it.
ProducerRejects(c, e) ==
    /\ csCalls[c].phase = "producing"
    /\ LET k == csCalls[c].key
       IN  /\ ncData' = producerFailure(ncData, k, now)
           /\ csOutcome' = [NoOutcome EXCEPT
                  !.op = "getCachedResult", !.key = k, !.how = "threw",
                  !.error = producerError(e), !.producerCalls = 1,
                  !.known = csCalls[c].known, !.alone = csCalls[c].alone,
                  !.kept = ~ncData[k].present]
           /\ csEvent' = [kind |-> "rejected", key |-> k, call |-> c, error |-> e]
    /\ csCalls' = [csCalls EXCEPT ![c] = IdleCSCall]
    /\ UNCHANGED <<now, csStats, csOps, csLastSet>>
    /\ UNCHANGED otherThanCS

\* node-cache's checkperiod timer.
CheckData ==
    /\ ncData' = checkData(ncData, now)
    /\ ncData' # ncData
    /\ csEvent' = [kind |-> "checkData", key |-> "", call |-> 0, error |-> ""]
    /\ UNCHANGED <<now, csStats, csCalls, csOps, csOutcome, csLastSet>>
    /\ UNCHANGED otherThanCS

CacheTick ==
    /\ now < StartTime + MaxCacheTicks * CacheTickMs
    /\ now' = now + CacheTickMs
    /\ csEvent' = [kind |-> "tick", key |-> "", call |-> 0, error |-> ""]
    /\ UNCHANGED <<ncData, csStats, csCalls, csOps, csOutcome, csLastSet>>
    /\ UNCHANGED otherThanCS

\* The namespace used through get, set, del, flush and resetStats.
CSNext ==
    \/ \E k \in CacheKeys : CacheGet(k)
    \/ \E k \in CacheKeys, v \in CacheValues, ttl \in TtlArgs : CacheSet(k, v, ttl)
    \/ \E k \in CacheKeys : CacheDel(k)
    \/ CacheFlush
    \/ ResetStats
    \/ CheckData
    \/ CacheTick

\* The namespace used through getCachedResult.
CachedResultNext ==
    \/ \E c \in CSCallIds, k \in CacheKeys, ttl \in CachedResultTtlArgs : GetCachedResult(c, k, ttl)
    \/ \E c \in CSCallIds, v \in CacheValues : ProducerResolves(c, v)
    \/ \E c \in CSCallIds, e \in ProducerErrors : ProducerRejects(c, e)
    \/ CheckData
    \/ CacheTick


(***************************************************************************)
(* Budget analysis: SurgicalBudgetAnalysisService.analyzeAccountBudgets,   *)
(* one call at a time, over the caching service's namespace. An account's  *)
(* analyses are cached under the account's key.                            *)
(***************************************************************************)
MaxCampaigns == 2       \* an account has at most this many campaigns
MaxAnalyses == 3        \* analyzeAccountBudgets is called at most this many times

\* The urgencyScore values an analysis may come with.
UrgencyScores == {10, 90}

AnalysisTtl == 300      \* the ttl analyzeAccountBudgets passes, in seconds

NotStarted == [state |-> "none", urgencyScore |-> 0]
Pending == [state |-> "pending", urgencyScore |-> 0]
Failed == [state |-> "failed", urgencyScore |-> 0]
Analysed(u) == [state |-> "fulfilled", urgencyScore |-> u]

IdleAnalysis ==
    [phase |-> "idle", key |-> "", n |-> 0,
     campaign |-> [i \in 1..MaxCampaigns |-> NotStarted]]

\* results.filter(fulfilled and not null).map(value): the campaigns whose
\* analysis gave a value, in the order of the campaign list.
RECURSIVE fulfilled(_, _)
fulfilled(campaign, n) ==
    IF n = 0 THEN <<>>
    ELSE IF campaign[n].state = "fulfilled"
         THEN Append(fulfilled(campaign, n - 1), n)
         ELSE fulfilled(campaign, n - 1)

\* Array.prototype.sort((a, b) => b.urgencyScore - a.urgencyScore): stable,
\* by descending urgencyScore (insertion of each element after its equals).
RECURSIVE insertByUrgency(_, _, _)
insertByUrgency(sorted, i, campaign) ==
    IF sorted = <<>> THEN <<i>>
    ELSE IF campaign[Head(sorted)].urgencyScore >= campaign[i].urgencyScore
         THEN <<Head(sorted)>> \o insertByUrgency(Tail(sorted), i, campaign)
         ELSE <<i>> \o sorted

RECURSIVE sortByUrgency(_, _)
sortByUrgency(list, campaign) ==
    IF list = <<>> THEN <<>>
    ELSE insertByUrgency(
             sortByUrgency(SubSeq(list, 1, Len(list) - 1), campaign),
             list[Len(list)], campaign)

\* The producer's return value: the fulfilled analyses, sorted.
analyses(campaign, n) == sortByUrgency(fulfilled(campaign, n), campaign)

\* The array of analyses as the cache holds it: a number other than Absent
\* that names the campaigns in their order.
RECURSIVE Stored(_)
Stored(list) ==
    IF list = <<>> THEN 1
    ELSE list[Len(list)] + (MaxCampaigns + 2) * Stored(SubSeq(list, 1, Len(list) - 1))

NoAnalysisOutcome ==
    [how |-> "none", key |-> "", ran |-> FALSE, n |-> 0,
     campaign |-> [i \in 1..MaxCampaigns |-> NotStarted],
     analyses |-> <<>>, value |-> Absent, error |-> ""]

ABInit ==
    /\ ab = IdleAnalysis
    /\ abOps = 0
    /\ abOutcome = NoAnalysisOutcome

\* analyzeAccountBudgets(accountId): getCachedResult's get; on a hit the
\* cached analyses are returned, on a miss the producer starts with
\* storage.getGoogleAdsAccount.
AnalyzeAccountBudgets(k) ==
    /\ abOps < MaxAnalyses
    /\ ab.phase = "idle"
    /\ LET r == get(ncData, csStats, k, now)
       IN  /\ ncData' = r.data
           /\ csStats' = r.stats
           /\ IF r.value # Absent
              THEN /\ abOutcome' = [NoAnalysisOutcome EXCEPT
                          !.how = "returned", !.key = k, !.value = r.value]
                   /\ ab' = ab
              ELSE /\ abOutcome' = abOutcome
                   /\ ab' = [IdleAnalysis EXCEPT !.phase = "account", !.key = k]
    /\ abOps' = abOps + 1
    /\ UNCHANGED <<now, csLastSet>>
    /\ UNCHANGED otherThanAB

\* storage.getGoogleAdsAccount resolved: with no account the producer
\* throws, else it calls googleAdsService.getCampaigns.
AccountFetched(found) ==
    /\ ab.phase = "account"
    /\ IF found
       THEN /\ ab' = [ab EXCEPT !.phase = "campaigns"]
            /\ abOutcome' = abOutcome
       ELSE /\ ab' = IdleAnalysis
            /\ abOutcome' = [NoAnalysisOutcome EXCEPT
                   !.how = "threw", !.key = ab.key, !.error = "account not found"]
    /\ UNCHANGED <<now, abOps, ncData, csStats, csLastSet>>
    /\ UNCHANGED otherThanAB

\* getCampaigns resolved with n campaigns: campaigns.map starts one
\* analyzeCampaignBudget per campaign.
CampaignsFetched(n) ==
    /\ ab.phase = "campaigns"
    /\ ab' = [ab EXCEPT !.phase = "analyzing", !.n = n,
                        !.campaign = [i \in 1..MaxCampaigns |->
                                         IF i <= n THEN Pending ELSE NotStarted]]
    /\ UNCHANGED <<now, abOps, abOutcome, ncData, csStats, csLastSet>>
    /\ UNCHANGED otherThanAB

\* getCampaigns rejected: the producer throws.
CampaignsFetchFails ==
    /\ ab.phase = "campaigns"
    /\ ab' = IdleAnalysis
    /\ abOutcome' = [NoAnalysisOutcome EXCEPT
           !.how = "threw", !.key = ab.key, !.error = "getCampaigns failed"]
    /\ UNCHANGED <<now, abOps, ncData, csStats, csLastSet>>
    /\ UNCHANGED otherThanAB

\* analyzeCampaignBudget of campaign i resolved with an analysis.
CampaignAnalysed(i, u) ==
    /\ ab.phase = "analyzing"
    /\ ab.campaign[i].state = "pending"
    /\ ab' = [ab EXCEPT !.campaign[i] = Analysed(u)]
    /\ UNCHANGED <<now, abOps, abOutcome, ncData, csStats, csLastSet>>
    /\ UNCHANGED otherThanAB

\* analyzeCampaignBudget of campaign i rejected: caught, logged, null.
CampaignAnalysisFails(i) ==
    /\ ab.phase = "analyzing"
    /\ ab.campaign[i].state = "pending"
    /\ ab' = [ab EXCEPT !.campaign[i] = Failed]
    /\ UNCHANGED <<now, abOps, abOutcome, ncData, csStats, csLastSet>>
    /\ UNCHANGED otherThanAB

\* Promise.allSettled resolved: the producer returns the sorted analyses,
\* getCachedResult sets them under the key and returns them, or fails with
\* the error set throws.
AnalysesSettled ==
    /\ ab.phase = "analyzing"
    /\ \A i \in 1..ab.n : ab.campaign[i].state # "pending"
    /\ LET result == analyses(ab.campaign, ab.n)
           r == set(ncData, ab.key, Stored(result), AnalysisTtl, now)
       IN  /\ ncData' = r.data
           /\ csLastSet' = IF r.ok
                           THEN [csLastSet EXCEPT ![ab.key] =
                                    [some |-> TRUE, value |-> Stored(result),
                                     time |-> now, ttl |-> AnalysisTtl]]
                           ELSE csLastSet
           /\ abOutcome' = [NoAnalysisOutcome EXCEPT
                  !.how = IF r.ok THEN "returned" ELSE "threw",
                  !.key = ab.key, !.ran = TRUE, !.n = ab.n,
                  !.campaign = ab.campaign,
                  !.analyses = IF r.ok THEN result ELSE <<>>,
                  !.value = IF r.ok THEN Stored(result) ELSE Absent,
                  !.error = IF r.ok THEN "" ELSE "ECACHEFULL"]
    /\ ab' = IdleAnalysis
    /\ UNCHANGED <<now, abOps, csStats>>
    /\ UNCHANGED otherThanAB

ABNext ==
    \/ \E k \in CacheKeys : AnalyzeAccountBudgets(k)
    \/ \E found \in BOOLEAN : AccountFetched(found)
    \/ \E n \in 0..MaxCampaigns : CampaignsFetched(n)
    \/ CampaignsFetchFails
    \/ \E i \in 1..MaxCampaigns, u \in UrgencyScores : CampaignAnalysed(i, u)
    \/ \E i \in 1..MaxCampaigns : CampaignAnalysisFails(i)
    \/ AnalysesSettled
    \/ CheckData
    \/ CacheTick


(***************************************************************************)
(* Account health: IssueDetectionService.calculateHealthScore over the     *)
(* issues detectAccountIssues returns (sorted by severity).                *)
(***************************************************************************)
MaxIssues == 5          \* detectAccountIssues returns at most this many issues

Severities == <<"critical", "high", "medium", "low">>

RECURSIVE Repeat(_, _)
Repeat(x, n) == IF n = 0 THEN <<>> ELSE <<x>> \o Repeat(x, n - 1)

\* The lists of issue severities detectAccountIssues may return: sorted by
\* descending severity weight.
IssueLists ==
    {Repeat("critical", c) \o Repeat("high", h) \o Repeat("medium", m) \o Repeat("low", l) :
        <<c, h, m, l>> \in {q \in (0..MaxIssues) \X (0..MaxIssues) \X (0..MaxIssues) \X (0..MaxIssues) :
                               q[1] + q[2] + q[3] + q[4] <= MaxIssues}}

\* issues.filter(i => i.severity === severity).length
RECURSIVE countSeverity(_, _)
countSeverity(issues, severity) ==
    IF issues = <<>> THEN 0
    ELSE (IF Head(issues) = severity THEN 1 ELSE 0) + countSeverity(Tail(issues), severity)

issueCounts(issues) ==
    [critical |-> countSeverity(issues, "critical"),
     high |-> countSeverity(issues, "high"),
     medium |-> countSeverity(issues, "medium"),
     low |-> countSeverity(issues, "low")]

scoreUnclamped(counts) ==
    100 - counts.critical * 25 - counts.high * 15 - counts.medium * 8 - counts.low * 3

\* let score = 100; score -= ...; score = Math.max(0, score)
healthScore(counts) ==
    LET score == 100 - counts.critical * 25 - counts.high * 15
                     - counts.medium * 8 - counts.low * 3
    IN  IF score < 0 THEN 0 ELSE score

\* The grade's if-chain.
healthGrade(score) ==
    IF score >= 90 THEN "A"
    ELSE IF score >= 80 THEN "B"
    ELSE IF score >= 70 THEN "C"
    ELSE IF score >= 60 THEN "D"
    ELSE "F"

calculateHealthScore(issues) ==
    LET counts == issueCounts(issues)
    IN  [score |-> healthScore(counts), grade |-> healthGrade(healthScore(counts)),
         issues |-> counts]

NoHealthScore == [score |-> 0, grade |-> "", issues |-> issueCounts(<<>>)]

HSInit == hs = [issues |-> <<>>, done |-> FALSE, result |-> NoHealthScore]

\* calculateHealthScore(accountId), from detectAccountIssues' resolution.
CalculateHealthScore ==
    /\ ~hs.done
    /\ hs' = [hs EXCEPT !.done = TRUE, !.result = calculateHealthScore(hs.issues)]
    /\ UNCHANGED <<ba, rl>>
    /\ UNCHANGED otherThanFn

HSNext == CalculateHealthScore

(***************************************************************************)
(* Budget pacing: SurgicalBudgetAnalysisService.performSurgicalAnalysis    *)
(* and its helpers. Numbers are exact fractions n/d with d > 0, in lowest  *)
(* terms; amounts are in dollars, variances in percent.                    *)
(***************************************************************************)
RECURSIVE GCD(_, _)
GCD(a, b) == IF b = 0 THEN a ELSE GCD(b, a % b)

Abs(x) == IF x < 0 THEN -x ELSE x

\* The number n/d (d # 0).
Rat(n, d) ==
    LET g == GCD(Abs(n), Abs(d))
    IN  IF d < 0 THEN [n |-> (-n) \div g, d |-> (-d) \div g]
                 ELSE [n |-> n \div g, d |-> d \div g]

Whole(k) == [n |-> k, d |-> 1]

\* NaN, the result of 0 / 0.
NaN == [n |-> 0, d |-> 0]

RatAdd(x, y) == Rat(x.n * y.d + y.n * x.d, x.d * y.d)
RatSub(x, y) == Rat(x.n * y.d - y.n * x.d, x.d * y.d)
RatMul(x, y) == Rat(x.n * y.n, x.d * y.d)
RatDiv(x, y) == Rat(x.n * y.d, x.d * y.n)
RatLess(x, y) == x.n * y.d < y.n * x.d
RatMax(x, y) == IF RatLess(x, y) THEN y ELSE x
RatMin(x, y) == IF RatLess(y, x) THEN y ELSE x
RatAbs(x) == [n |-> Abs(x.n), d |-> x.d]

riskLevelInclusive(spendVariancePercentage, daysRemaining) ==
    LET absVariance == RatAbs(spendVariancePercentage)
    IN  IF ~RatLess(absVariance, Whole(50)) /\ daysRemaining <= 5 THEN "CRITICAL"
        ELSE IF ~RatLess(absVariance, Whole(30)) /\ daysRemaining <= 10 THEN "HIGH"
        ELSE IF ~RatLess(absVariance, Whole(20)) THEN "MEDIUM"
        ELSE "LOW"

\* calculateRiskLevel
calculateRiskLevel(spendVariancePercentage, daysRemaining) ==
    LET absVariance == RatAbs(spendVariancePercentage)
    IN  IF RatLess(Whole(50), absVariance) /\ daysRemaining < 5 THEN "CRITICAL"
        ELSE IF RatLess(Whole(30), absVariance) /\ daysRemaining < 10 THEN "HIGH"
        ELSE IF RatLess(Whole(20), absVariance) THEN "MEDIUM"
        ELSE "LOW"

\* calculateUrgencyScore; with monthlyBudget = 0 the overage percentage is
\* infinite, or NaN when the overage is 0 too.
calculateUrgencyScore(projectedOverage, monthlyBudget, daysRemaining) ==
    LET timeUrgency == RatMul(RatMax(Whole(0), Rat(10 - daysRemaining, 10)), Whole(50))
    IN  IF monthlyBudget.n = 0
        THEN IF projectedOverage.n = 0 THEN NaN
             ELSE RatMin(Whole(100), RatAdd(timeUrgency, Whole(50)))
        ELSE LET overagePercentage ==
                     RatMul(RatDiv(projectedOverage, monthlyBudget), Whole(100))
                 overageUrgency ==
                     RatMin(Whole(50), RatMul(RatAbs(overagePercentage), Whole(2)))
             IN  RatMin(Whole(100), RatAdd(timeUrgency, overageUrgency))

\* calculateConfidenceScore
calculateConfidenceScore(daysElapsed, currentSpend) ==
    IF currentSpend.n = 0 THEN Rat(3, 10)
    ELSE IF daysElapsed < 3 THEN Rat(6, 10)
    ELSE IF daysElapsed < 7 THEN Rat(8, 10)
    ELSE Rat(95, 100)

\* generateSurgicalMessages: which of the three messages is written.
surgicalScenario(projectedOverage) ==
    IF projectedOverage.n > 0 THEN "overspend"
    ELSE IF RatLess(projectedOverage, Whole(-100)) THEN "underspend"
    ELSE "on track"

projectedRateOnly(currentSpend, daysElapsed, daysRemaining) ==
    RatMul(RatDiv(currentSpend, Whole(IF daysElapsed > 1 THEN daysElapsed ELSE 1)),
           Whole(daysRemaining))

\* const currentDailyRate = currentSpend / Math.max(daysElapsed, 1);
\* const projectedMonthEndSpend = currentSpend + (currentDailyRate * daysRemaining)
projectedMonthEndSpend(currentSpend, daysElapsed, daysRemaining) ==
    LET currentDailyRate ==
            RatDiv(currentSpend, Whole(IF daysElapsed > 1 THEN daysElapsed ELSE 1))
    IN  RatAdd(currentSpend, RatMul(currentDailyRate, Whole(daysRemaining)))

performSurgicalAnalysis(params) ==
    LET currentSpend == params.currentSpend
        monthlyBudget == params.monthlyBudget
        daysElapsed == params.daysElapsed
        daysRemaining == params.daysRemaining
        totalDaysInMonth == params.totalDaysInMonth
        dailyBudget == RatDiv(monthlyBudget, Whole(totalDaysInMonth))
        expectedSpendToDate ==
            RatMul(RatDiv(monthlyBudget, Whole(totalDaysInMonth)), Whole(daysElapsed))
        spendVariance == RatSub(currentSpend, expectedSpendToDate)
        spendVariancePercentage ==
            IF expectedSpendToDate.n > 0
            THEN RatMul(RatDiv(spendVariance, expectedSpendToDate), Whole(100))
            ELSE Whole(0)
        projected == projectedMonthEndSpend(currentSpend, daysElapsed, daysRemaining)
        projectedOverage == RatSub(projected, monthlyBudget)
        remainingBudget == RatSub(monthlyBudget, currentSpend)
        recommendedDailyBudget ==
            RatMax(Whole(0),
                   RatDiv(remainingBudget, Whole(IF daysRemaining > 1 THEN daysRemaining ELSE 1)))
        budgetAdjustmentAmount == RatSub(recommendedDailyBudget, dailyBudget)
        budgetAdjustmentPercentage ==
            IF dailyBudget.n > 0
            THEN RatMul(RatDiv(budgetAdjustmentAmount, dailyBudget), Whole(100))
            ELSE Whole(0)
    IN  [currentSpend |-> currentSpend,
         monthlyBudget |-> monthlyBudget,
         dailyBudget |-> dailyBudget,
         daysElapsed |-> daysElapsed,
         daysRemaining |-> daysRemaining,
         expectedSpendToDate |-> expectedSpendToDate,
         spendVariance |-> spendVariance,
         spendVariancePercentage |-> spendVariancePercentage,
         projectedMonthEndSpend |-> projected,
         projectedOverage |-> projectedOverage,
         recommendedDailyBudget |-> recommendedDailyBudget,
         budgetAdjustmentAmount |-> budgetAdjustmentAmount,
         budgetAdjustmentPercentage |-> budgetAdjustmentPercentage,
         riskLevel |-> calculateRiskLevel(spendVariancePercentage, daysRemaining),
         scenario |-> surgicalScenario(projectedOverage),
         confidenceScore |-> calculateConfidenceScore(daysElapsed, currentSpend),
         urgencyScore |-> calculateUrgencyScore(projectedOverage, monthlyBudget, daysRemaining),
         dataQuality |-> IF currentSpend.n > 0 THEN "HIGH" ELSE "MEDIUM"]

\* calculateTimeFactors: the day of the month, the days after it and the
\* month's length.
TimeFactors ==
    {[daysElapsed |-> e, daysRemaining |-> t - e, totalDaysInMonth |-> t] :
        <<e, t>> \in {q \in (1..31) \X (28..31) : q[1] <= q[2]}}

\* mtdMetrics.cost and googleCampaign.budget, in dollars.
SpendValues == {Whole(0), Rat(28470, 100), Whole(1500)}
BudgetValues == {Whole(0), Whole(1000)}

BAInit == ba = [done |-> FALSE]

\* performSurgicalAnalysis({currentSpend, monthlyBudget, ...timeFactors})
PerformSurgicalAnalysis ==
    /\ ~ba.done
    /\ ba' = [done |-> TRUE, params |-> ba.params,
              analysis |-> performSurgicalAnalysis(ba.params)]
    /\ UNCHANGED <<hs, rl>>
    /\ UNCHANGED otherThanFn

BANext == PerformSurgicalAnalysis

\* The spendVariancePercentage values calculateRiskLevel is called with,
\* in percent: the thresholds, and half a percent from them.
VarianceValues ==
    {Rat(s * h, 2) : s \in {-1, 1}, h \in {0, 39, 40, 41, 59, 60, 61, 99, 100, 101}}

RLInit == rl = [done |-> FALSE]

\* calculateRiskLevel(spendVariancePercentage, daysRemaining)
CalculateRiskLevel ==
    /\ ~rl.done
    /\ rl' = [rl EXCEPT !.done = TRUE,
                        !.riskLevel = calculateRiskLevel(rl.spendVariancePercentage,
                                                         rl.daysRemaining)]
    /\ UNCHANGED <<hs, ba>>
    /\ UNCHANGED otherThanFn

RLNext == CalculateRiskLevel

(***************************************************************************)
(* Cross-account priorities: calculateAccountPriority and the producer of  *)
(* getCrossAccountPriorities.                                              *)
(***************************************************************************)
MaxAccounts == 2           \* the user has at most this many accounts
MaxAccountCampaigns == 3   \* analyzeAccountBudgets returns at most this many list

\* The list of a campaign, by the fields calculateAccountPriority reads
\* (dollars).
CampaignAnalyses ==
    {[monthlyBudget |-> 0, projectedOverage |-> 0, riskLevel |-> "LOW"],
     [monthlyBudget |-> 1000, projectedOverage |-> 100, riskLevel |-> "LOW"],
     [monthlyBudget |-> 1000, projectedOverage |-> -500, riskLevel |-> "HIGH"],
     [monthlyBudget |-> 0, projectedOverage |-> 300, riskLevel |-> "CRITICAL"]}

\* What analyzeAccountBudgets resolves with.
AccountAnalyses ==
    UNION {[1..n -> CampaignAnalyses] : n \in 0..MaxAccountCampaigns}

\* analyses.reduce((sum, a) => sum + a.monthlyBudget, 0) for the term
\* "monthlyBudget", and with Math.abs(a.projectedOverage) for the term
\* "opportunity"; from analysis j on.
RECURSIVE reduceSum(_, _, _)
reduceSum(list, term, j) ==
    IF j > Len(list) THEN 0
    ELSE (IF term = "monthlyBudget" THEN list[j].monthlyBudget
          ELSE Abs(list[j].projectedOverage))
         + reduceSum(list, term, j + 1)

\* analyses.filter(a => a.riskLevel is one of levels).length
riskCount(list, levels) ==
    Cardinality({j \in 1..Len(list) : list[j].riskLevel \in levels})

accountRiskLevel(list) ==
    IF riskCount(list, {"CRITICAL"}) > 0 THEN "CRITICAL"
    ELSE IF riskCount(list, {"HIGH"}) > 2 THEN "HIGH"
    ELSE IF riskCount(list, {"CRITICAL", "HIGH"}) > 0 THEN "MEDIUM"
    ELSE "LOW"

\* Math.min(40, (opportunityValue / totalBudget) * 100): 0 / 0 is NaN and
\* Math.min with NaN is NaN; x / 0 is Infinity for x > 0.
opportunityPoints(opportunityValue, totalBudget) ==
    IF totalBudget = 0
    THEN IF opportunityValue = 0 THEN NaN ELSE Whole(40)
    ELSE RatMin(Whole(40), Rat(opportunityValue * 100, totalBudget))

riskPoints(riskLevel) ==
    IF riskLevel = "CRITICAL" THEN 40
    ELSE IF riskLevel = "HIGH" THEN 30
    ELSE IF riskLevel = "MEDIUM" THEN 20
    ELSE 0

calculateAccountPriority(list) ==
    LET totalBudget == reduceSum(list, "monthlyBudget", 1)
        urgentCampaigns == riskCount(list, {"CRITICAL", "HIGH"})
        opportunityValue == reduceSum(list, "opportunity", 1)
        riskLevel == accountRiskLevel(list)
        points == opportunityPoints(opportunityValue, totalBudget)
    IN  [totalBudget |-> totalBudget,
         urgentCampaigns |-> urgentCampaigns,
         opportunityValue |-> opportunityValue,
         riskLevel |-> riskLevel,
         priorityScore |->
             IF points = NaN THEN NaN
             ELSE RatMin(Whole(100),
                         RatAdd(Whole(urgentCampaigns * 20 + riskPoints(riskLevel)),
                                points))]

\* The permutations of 1..n.
Orders(n) == {f \in [1..n -> 1..n] : \A i, j \in 1..n : f[i] = f[j] => i = j}

\* priorities.sort((a, b) => b.priorityScore - a.priorityScore): the orders
\* the sort may leave the list in. With numbers it is the stable sort by
\* falling score; a NaN score makes the comparator return NaN, it is not a
\* consistent comparator any more and the order is implementation-defined.
sortedOrders(list) ==
    IF \E j \in 1..Len(list) : list[j].priorityScore = NaN
    THEN Orders(Len(list))
    ELSE {f \in Orders(Len(list)) :
            \A i, j \in 1..Len(list) :
                i < j => \/ RatLess(list[f[j]].priorityScore, list[f[i]].priorityScore)
                         \/ /\ list[f[j]].priorityScore = list[f[i]].priorityScore
                            /\ f[i] < f[j]}

PRInit ==
    pr = [phase |-> "idle", accounts |-> 0, failedAnalyses |-> 0,
          priorities |-> <<>>, result |-> <<>>]

\* getCrossAccountPriorities, cache miss: the producer starts and the
\* accounts of the user are fetched.
GetCrossAccountPriorities(n) ==
    /\ pr.phase = "idle"
    /\ pr' = [pr EXCEPT !.phase = "analysing", !.accounts = n]
    /\ UNCHANGED otherThanPR

\* The next account's analyzeAccountBudgets resolves and its priority is
\* calculated.
AccountPriorityCalculated(list) ==
    /\ pr.phase = "analysing"
    /\ pr.accounts > 0
    /\ pr' = [pr EXCEPT !.accounts = @ - 1,
                        !.priorities = Append(@, calculateAccountPriority(list))]
    /\ UNCHANGED otherThanPR

\* The next account's analyzeAccountBudgets rejects: caught, null, and
\* filtered out of the results.
AccountAnalysisFails ==
    /\ pr.phase = "analysing"
    /\ pr.accounts > 0
    /\ pr' = [pr EXCEPT !.accounts = @ - 1, !.failedAnalyses = @ + 1]
    /\ UNCHANGED otherThanPR

\* Promise.allSettled resolves; the priorities are sorted and returned.
PrioritiesSorted ==
    /\ pr.phase = "analysing"
    /\ pr.accounts = 0
    /\ \E order \in sortedOrders(pr.priorities) :
           pr' = [pr EXCEPT !.phase = "done",
                            !.result = [j \in 1..Len(pr.priorities) |->
                                           pr.priorities[order[j]]]]
    /\ UNCHANGED otherThanPR

PRNext ==
    \/ \E n \in 0..MaxAccounts : GetCrossAccountPriorities(n)
    \/ \E list \in AccountAnalyses : AccountPriorityCalculated(list)
    \/ AccountAnalysisFails
    \/ PrioritiesSorted

(***************************************************************************)
(* Service availability: the accessors of GracefulDegradationService, each *)
(* call taken as one step, and isGoogleAdsServiceAvailable, which reads    *)
(* the 'google-ads-api' breaker of CircuitBreakerManager.                  *)
(***************************************************************************)
MaxAccessorCalls == 6   \* the accessors are called at most this many times

\* CircuitBreaker.isHealthy
isHealthy(b) == b.state = "CLOSED"

\* The 'google-ads-api' breaker after an accessor's primary operation has
\* failed: the primary operation is `storage.get...` called directly, no
\* breaker's execute() is on its path, and the breaker is as it was.
afterPrimaryFailure(b, t) == b

\* The 'google-ads-api' breaker after an accessor's primary operation has
\* succeeded.
afterPrimarySuccess(b, t) == b

AVInit ==
    av = [requests |-> 0, primaryFailures |-> 0, how |-> "none",
          event |-> "none", available |-> TRUE]

\* get...WithFallback(...) whose storage query resolves with `rows` rows.
AccessorPrimarySucceeds(kind, rows) ==
    /\ av.requests < MaxAccessorCalls
    /\ gdCache' = cacheOnSuccess(gdCache, AccessorKey(kind),
                                 AccessorPrimaryResult(kind, rows, now), now)
    /\ cb' = afterPrimarySuccess(cb, now)
    /\ av' = [av EXCEPT !.requests = @ + 1, !.primaryFailures = 0,
                        !.how = "primary", !.event = kind]
    /\ UNCHANGED otherThanAV

\* get...WithFallback(...) whose storage query rejects: the stored value or
\* the demo data is returned.
AccessorPrimaryFails(kind) ==
    /\ av.requests < MaxAccessorCalls
    /\ LET cached == cachedOnFailure(gdCache, AccessorKey(kind), now)
       IN  /\ gdCache' = cached.cache
           /\ av' = [av EXCEPT !.requests = @ + 1, !.primaryFailures = @ + 1,
                               !.how = IF cached.hit THEN "cache" ELSE "fallback",
                               !.event = kind]
    /\ cb' = afterPrimaryFailure(cb, now)
    /\ UNCHANGED otherThanAV

\* isGoogleAdsServiceAvailable()
IsGoogleAdsServiceAvailable ==
    /\ av.event # "asked"
    /\ av' = [av EXCEPT !.event = "asked", !.available = isHealthy(cb)]
    /\ UNCHANGED <<cb, gdCache>>
    /\ UNCHANGED otherThanAV

AVNext ==
    \/ \E kind \in Accessors, rows \in 0..MaxRows : AccessorPrimarySucceeds(kind, rows)
    \/ \E kind \in Accessors : AccessorPrimaryFails(kind)
    \/ IsGoogleAdsServiceAvailable

(***************************************************************************)
(* Authentication: the token blacklist of services/auth, authenticateToken *)
(* and the logout route. Tokens are validly signed, unexpired tokens of    *)
(* existing users.                                                         *)
(***************************************************************************)
BlacklistLimit == 1000

\* The tokens followed by name; the other tokens are only counted.
Tokens == {"t1", "t2"}

\* tokenBlacklist.size
blacklistSize(blacklist) == Cardinality(blacklist.named) + blacklist.others

\* tokenBlacklist.has(token)
blacklisted(blacklist, token) == token \in blacklist.named

EmptyBlacklist == [named |-> {}, others |-> 0]

\* invalidateToken: add, then clear the whole set once it holds more than
\* 1000 tokens.
cleanUp(blacklist) ==
    IF blacklistSize(blacklist) > BlacklistLimit THEN EmptyBlacklist ELSE blacklist

invalidateToken(blacklist, token) ==
    cleanUp([blacklist EXCEPT !.named = @ \cup {token}])

\* invalidateToken of a token that is not followed by name (and, coming
\* through the logout route, not in the set yet).
invalidateOtherToken(blacklist) ==
    cleanUp([blacklist EXCEPT !.others = @ + 1])

\* authenticateToken for a valid token: the status it answers with, 0 when
\* it calls next().
authenticateToken(blacklist, token) ==
    IF blacklisted(blacklist, token) THEN 403 ELSE 0

AUInit ==
    au = [blacklist |-> EmptyBlacklist, invalidated |-> {},
          last |-> [route |-> "none", token |-> "", invalidatedBefore |-> FALSE,
                    status |-> 0, reached |-> FALSE]]

\* The outcome of a request with token t that authenticateToken answered
\* with `status` (0: passed on to the handler, which answers 200).
Answered(route, t, status) ==
    [route |-> route, token |-> t, invalidatedBefore |-> t \in au.invalidated,
     status |-> IF status = 0 THEN 200 ELSE status, reached |-> status = 0]

\* A request with token t on a route behind authenticateToken (GET
\* /api/auth/me).
AuthenticatedRequest(t) ==
    /\ au' = [au EXCEPT !.last = Answered("me", t, authenticateToken(au.blacklist, t))]
    /\ UNCHANGED otherThanAU

\* POST /api/auth/logout with token t.
Logout(t) ==
    /\ LET status == authenticateToken(au.blacklist, t)
       IN  IF status = 0
           THEN au' = [blacklist |-> invalidateToken(au.blacklist, t),
                       invalidated |-> au.invalidated \cup {t},
                       last |-> Answered("logout", t, status)]
           ELSE au' = [au EXCEPT !.last = Answered("logout", t, status)]
    /\ UNCHANGED otherThanAU

\* POST /api/auth/logout with another user's token.
LogoutOther ==
    /\ au' = [au EXCEPT !.blacklist = invalidateOtherToken(au.blacklist),
                        !.last = Answered("logout", "other", 0)]
    /\ UNCHANGED otherThanAU

AUNext ==
    \/ \E t \in Tokens : AuthenticatedRequest(t)
    \/ \E t \in Tokens : Logout(t)
    \/ LogoutOther

(***************************************************************************)
(* Chat streaming: OpenRouterService.streamChatCompletion as called by the *)
(* route POST /api/chat/sessions/:sessionId/stream.                        *)
(***************************************************************************)
MaxDataEvents == 3   \* the response stream emits at most this many 'data' events
MaxLines == 2        \* a 'data' event's buffer holds at most this many lines

\* The lines of the stream: "data: {json}" with delta content, with delta
\* content and a finish_reason, with a finish_reason only, "data: [DONE]",
\* and a line that is no "data: " line or does not parse.
LineKinds == {"content", "content+finish", "finish", "[DONE]", "other"}

Buffers == UNION {[1..n -> LineKinds] : n \in 1..MaxLines}

\* What the callbacks of the route have done so far.
NoCallbacks ==
    [onChunk |-> 0, onComplete |-> 0, onError |-> 0, chunksAfterEnd |-> 0,
     assistantMessages |-> 0, resEnd |-> 0]

\* The route's onChunk: res.write(chunk).
onChunk(cbs) ==
    [cbs EXCEPT !.onChunk = @ + 1,
                !.chunksAfterEnd = IF cbs.resEnd > 0 THEN @ + 1 ELSE @]

\* The route's onComplete: the assistant message is stored, res.end().
onComplete(cbs) ==
    [cbs EXCEPT !.onComplete = @ + 1, !.assistantMessages = @ + 1, !.resEnd = @ + 1]

\* The route's onError: res.write(error), res.end().
onError(cbs) == [cbs EXCEPT !.onError = @ + 1, !.resEnd = @ + 1]

\* The 'data' listener on the lines of one buffer, from line j on: the
\* loop goes on after content, and `return` leaves the listener (this call
\* of it only) after onComplete.
RECURSIVE onData(_, _, _)
onData(cbs, lines, j) ==
    IF j > Len(lines) THEN cbs
    ELSE IF lines[j] = "[DONE]" THEN onComplete(cbs)
    ELSE IF lines[j] = "content" THEN onData(onChunk(cbs), lines, j + 1)
    ELSE IF lines[j] = "content+finish" THEN onComplete(onChunk(cbs))
    ELSE IF lines[j] = "finish" THEN onComplete(cbs)
    ELSE onData(cbs, lines, j + 1)

STInit == st = [phase |-> "idle", dataEvents |-> 0, callbacks |-> NoCallbacks]

\* streamChatCompletion is called; the request is sent.
StreamChatCompletion ==
    /\ st.phase = "idle"
    /\ st' = [st EXCEPT !.phase = "requesting"]
    /\ UNCHANGED otherThanST

\* axios rejects: the catch block calls onError.
RequestFails ==
    /\ st.phase = "requesting"
    /\ st' = [st EXCEPT !.phase = "closed", !.callbacks = onError(@)]
    /\ UNCHANGED otherThanST

\* axios resolves with the response stream; the three listeners are set.
ResponseArrives ==
    /\ st.phase = "requesting"
    /\ st' = [st EXCEPT !.phase = "streaming"]
    /\ UNCHANGED otherThanST

\* The stream emits 'data' with a buffer of lines.
StreamData(lines) ==
    /\ st.phase = "streaming"
    /\ st.dataEvents < MaxDataEvents
    /\ st' = [st EXCEPT !.dataEvents = @ + 1, !.callbacks = onData(@, lines, 1)]
    /\ UNCHANGED otherThanST

\* The stream emits 'error' (and nothing after it).
StreamError ==
    /\ st.phase = "streaming"
    /\ st' = [st EXCEPT !.phase = "closed", !.callbacks = onError(@)]
    /\ UNCHANGED otherThanST

\* The stream emits 'end'.
StreamEnd ==
    /\ st.phase = "streaming"
    /\ st' = [st EXCEPT !.phase = "closed", !.callbacks = onComplete(@)]
    /\ UNCHANGED otherThanST

STNext ==
    \/ StreamChatCompletion
    \/ RequestFails
    \/ ResponseArrives
    \/ \E lines \in Buffers : StreamData(lines)
    \/ StreamError
    \/ StreamEnd

(***************************************************************************)
(* Issue detection: IssueDetectionService.detectAccountIssues with its     *)
(* three detectors, and calculateHealthScore on its result.                *)
(***************************************************************************)
MaxBudgetAnalyses == 1   \* analyzeAccountBudgets returns at most this many analyses
MaxDetectCampaigns == 2  \* getCampaigns returns at most this many campaigns

\* A promise's settlement.
Rejected == [ok |-> FALSE, value |-> <<>>]
Resolved(v) == [ok |-> TRUE, value |-> v]

\* A campaign's metrics of the last 7 days: ctr and conversionRate in
\* thousandths, cpc in dollars; values on both sides of every threshold.
MetricValues ==
    [ctr : {5, 10, 20}, cpc : {5, 10, 11}, conversionRate : {10}, clicks : {100, 101}]

\* getPerformanceMetrics for the campaigns, one settlement per campaign.
CampaignMetrics ==
    UNION {[1..n -> {Rejected} \cup {Resolved(m) : m \in MetricValues}] :
              n \in 0..MaxDetectCampaigns}

\* analyzeAccountBudgets: it rejects or resolves with analyses, of which
\* the riskLevel is kept.
BudgetAnalyses ==
    {Rejected} \cup
    {Resolved(a) : a \in UNION {[1..n -> {"CRITICAL", "HIGH", "MEDIUM", "LOW"}] :
                                   n \in 0..MaxBudgetAnalyses}}

\* What detectPerformanceIssues meets: the account lookup rejects, finds
\* no account, getCampaigns rejects, or the campaigns' metrics calls settle.
PerformanceData ==
    {[account |-> "rejected", campaigns |-> Rejected],
     [account |-> "missing", campaigns |-> Rejected],
     [account |-> "found", campaigns |-> Rejected]}
    \cup {[account |-> "found", campaigns |-> Resolved(ms)] : ms \in CampaignMetrics}

Issue(severity, metric, campaign) ==
    [severity |-> severity, metric |-> metric, campaign |-> campaign]

\* detectBudgetIssues' loop from analysis j on.
RECURSIVE budgetIssues(_, _)
budgetIssues(list, j) ==
    IF j > Len(list) THEN <<>>
    ELSE (IF list[j] \in {"CRITICAL", "HIGH"}
          THEN <<Issue(IF list[j] = "CRITICAL" THEN "critical" ELSE "high", "budget", j)>>
          ELSE <<>>)
         \o budgetIssues(list, j + 1)

\* detectBudgetIssues: an error is logged and the issues so far returned.
detectBudgetIssues(data) ==
    IF data.ok THEN budgetIssues(data.value, 1) ELSE <<>>

\* The three checks on one campaign's metrics.
metricIssues(m, j) ==
    (IF m.ctr < 20
     THEN <<Issue(IF m.ctr < 10 THEN "high" ELSE "medium", "ctr", j)>> ELSE <<>>)
    \o (IF m.cpc > 5
        THEN <<Issue(IF m.cpc > 10 THEN "high" ELSE "medium", "cpc", j)>> ELSE <<>>)
    \o (IF m.conversionRate < 20 /\ m.clicks > 100
        THEN <<Issue("medium", "conversion_rate", j)>> ELSE <<>>)

RECURSIVE performanceIssuesLost(_, _)
performanceIssuesLost(list, j) ==
    IF j > Len(list) THEN <<>>
    ELSE IF ~list[j].ok THEN <<>>
    ELSE IF \E i \in j..Len(list) : ~list[i].ok THEN <<>>
    ELSE metricIssues(list[j].value, j) \o performanceIssuesLost(list, j + 1)

\* detectPerformanceIssues' loop from campaign j on: a rejected metrics
\* call ends the loop in the catch block, the issues pushed so far stay.
RECURSIVE performanceIssues(_, _)
performanceIssues(list, j) ==
    IF j > Len(list) THEN <<>>
    ELSE IF ~list[j].ok THEN <<>>
    ELSE metricIssues(list[j].value, j) \o performanceIssues(list, j + 1)

\* detectPerformanceIssues
detectPerformanceIssues(data) ==
    IF data.account = "found" /\ data.campaigns.ok
    THEN performanceIssues(data.campaigns.value, 1)
    ELSE <<>>

\* getSeverityWeight
getSeverityWeight(severity) ==
    CASE severity = "critical" -> 4
      [] severity = "high" -> 3
      [] severity = "medium" -> 2
      [] severity = "low" -> 1
      [] OTHER -> 0

WithWeight(issues, w) ==
    SelectSeq(issues, LAMBDA i : getSeverityWeight(i.severity) = w)

\* issues.sort((a, b) => weight(b) - weight(a)): Array.prototype.sort is
\* stable, issues of one weight keep their order.
sortBySeverity(issues) ==
    WithWeight(issues, 4) \o WithWeight(issues, 3) \o WithWeight(issues, 2)
        \o WithWeight(issues, 1) \o WithWeight(issues, 0)

RECURSIVE severitiesOf(_)
severitiesOf(issues) ==
    IF issues = <<>> THEN <<>>
    ELSE <<Head(issues).severity>> \o severitiesOf(Tail(issues))

IdleDetection ==
    [phase |-> "idle", budget |-> Rejected,
     performance |-> [account |-> "rejected", campaigns |-> Rejected],
     quality |-> "", issues |-> <<>>, outcome |-> "", result |-> <<>>,
     health |-> NoHealthScore]

DIInit == di = IdleDetection

\* detectAccountIssues(accountId) is called and the account is found.
DetectAccountIssues ==
    /\ di.phase = "idle"
    /\ di' = [di EXCEPT !.phase = "budget"]
    /\ UNCHANGED otherThanDI

\* detectAccountIssues(accountId) is called, there is no such account.
AccountNotFound ==
    /\ di.phase = "idle"
    /\ di' = [di EXCEPT !.phase = "done", !.outcome = "threw"]
    /\ UNCHANGED otherThanDI

\* await this.detectBudgetIssues(accountId); issues.push(...budgetIssues)
BudgetIssuesDetected ==
    /\ di.phase = "budget"
    /\ \E data \in BudgetAnalyses :
           di' = [di EXCEPT !.phase = "performance", !.budget = data,
                           !.issues = @ \o detectBudgetIssues(data)]
    /\ UNCHANGED otherThanDI

\* await this.detectPerformanceIssues(accountId); issues.push(...)
PerformanceIssuesDetected ==
    /\ di.phase = "performance"
    /\ \E data \in PerformanceData :
           di' = [di EXCEPT !.phase = "quality", !.performance = data,
                           !.issues = @ \o detectPerformanceIssues(data)]
    /\ UNCHANGED otherThanDI

\* await this.detectQualityScoreIssues(accountId), which finds no issue
\* whether its calls resolve or reject; then the sorted issues are returned.
QualityIssuesDetected(settled) ==
    /\ di.phase = "quality"
    /\ di' = [di EXCEPT !.phase = "done", !.quality = settled,
                        !.outcome = "returned", !.result = sortBySeverity(di.issues)]
    /\ UNCHANGED otherThanDI

\* calculateHealthScore(accountId) from the issues returned.
HealthScoreCalculated ==
    /\ di.phase = "done"
    /\ di.outcome = "returned"
    /\ di' = [di EXCEPT !.phase = "scored",
                        !.health = calculateHealthScore(severitiesOf(di.result))]
    /\ UNCHANGED otherThanDI

DINext ==
    \/ DetectAccountIssues
    \/ AccountNotFound
    \/ BudgetIssuesDetected
    \/ PerformanceIssuesDetected
    \/ \E settled \in {"resolved", "rejected"} : QualityIssuesDetected(settled)
    \/ HealthScoreCalculated

AppInit == PRInit /\ AVInit /\ AUInit /\ STInit /\ DIInit

Init ==
    /\ now = StartTime /\ CBInit /\ GDInit /\ CSInit /\ ABInit
    /\ HSInit /\ BAInit /\ RLInit /\ AppInit

Spec == Init /\ [][CBNext]_vars

SpecTimeout == Init /\ [][TimeoutNext]_vars /\ TimersRun

SpecGD == Init /\ [][GDNext]_vars

SpecGDAccessors == Init /\ [][GDAccessorNext]_vars

SpecCache == Init /\ [][CSNext]_vars

SpecCachedResult == Init /\ [][CachedResultNext]_vars

SpecAnalysis == Init /\ [][ABNext]_vars

\* calculateHealthScore on every list of issues.
HealthInit ==
    /\ now = StartTime /\ CBInit /\ GDInit /\ CSInit /\ ABInit /\ BAInit /\ RLInit
    /\ AppInit
    /\ \E issues \in IssueLists :
           hs = [issues |-> issues, done |-> FALSE, result |-> NoHealthScore]

SpecHealth == HealthInit /\ [][HSNext]_vars

\* performSurgicalAnalysis on every combination of the inputs.
BudgetInit ==
    /\ now = StartTime /\ CBInit /\ GDInit /\ CSInit /\ ABInit /\ HSInit /\ RLInit
    /\ AppInit
    /\ \E spend \in SpendValues, budget \in BudgetValues, time \in TimeFactors :
           ba = [done |-> FALSE,
                 params |-> [currentSpend |-> spend, monthlyBudget |-> budget,
                             daysElapsed |-> time.daysElapsed,
                             daysRemaining |-> time.daysRemaining,
                             totalDaysInMonth |-> time.totalDaysInMonth]]

SpecBudget == BudgetInit /\ [][BANext]_vars

\* calculateRiskLevel on every combination of the inputs.
RiskInit ==
    /\ now = StartTime /\ CBInit /\ GDInit /\ CSInit /\ ABInit /\ HSInit /\ BAInit
    /\ AppInit
    /\ \E variance \in VarianceValues, days \in 0..30 :
           rl = [done |-> FALSE, spendVariancePercentage |-> variance,
                 daysRemaining |-> days, riskLevel |-> ""]

SpecRisk == RiskInit /\ [][RLNext]_vars

SpecPriority == Init /\ [][PRNext]_vars

SpecAvailability == Init /\ [][AVNext]_vars

SpecAuth == Init /\ [][AUNext]_vars

SpecStream == Init /\ [][STNext]_vars

SpecDetection == Init /\ [][DINext]_vars

\* The breaker of a slow service.
SlowServiceInit ==
    /\ now = StartTime /\ CBInitWith(slowServiceConfig) /\ GDInit /\ CSInit /\ ABInit
    /\ HSInit /\ BAInit /\ RLInit /\ AppInit

SpecSlowService == SlowServiceInit /\ [][CBNext]_vars

(***************************************************************************)
(* Circuit breaker: properties.                                            *)
(***************************************************************************)
ExecuteCalled == cbEvent'.kind \in {"admit", "reject"}
CallFailed == cbEvent'.kind \in {"failure", "timeout"}
CallSucceeded == cbEvent'.kind = "success"

\* C1: in CLOSED, the failure that makes failureThreshold failed calls in a
\* row (no success between them) opens the circuit with nextAttempt = time of
\* that failure + recoveryTimeout; nextAttempt stays put while the circuit
\* stays OPEN; and an execute() called while OPEN before nextAttempt is
\* rejected: the operation is not invoked and no call goes in flight.
C1_TripAndReject ==
    [][ /\ (CallFailed /\ cb.state = "CLOSED" /\ consec' >= failureThreshold)
            => (cb'.state = "OPEN" /\ cb'.nextAttempt = now + recoveryTimeout)
        /\ (cb.state = "OPEN" /\ cb'.state = "OPEN")
            => cb'.nextAttempt = cb.nextAttempt
        /\ (ExecuteCalled /\ cb.state = "OPEN" /\ now < cb.nextAttempt)
            => /\ cbEvent'.kind = "reject"
               /\ opInvoked' = opInvoked
               /\ calls' = calls
               /\ cb'.state = "OPEN"
               /\ cb'.rejectedCalls = cb.rejectedCalls + 1
      ]_vars

\* C1 witness: a call has just been rejected by a circuit that
\* failureThreshold consecutive failures opened.
C1_Witness ==
    /\ cbEvent.kind = "reject"
    /\ cb.state = "OPEN"
    /\ consec >= failureThreshold
    /\ now < cb.nextAttempt

\* C2: an execute() called while OPEN at now >= nextAttempt moves the breaker
\* to HALF_OPEN and invokes the operation; one called at now < nextAttempt
\* leaves the breaker OPEN.
C2_ProbeAfterRecovery ==
    [][ (ExecuteCalled /\ cb.state = "OPEN" /\ cb.nextAttempt # Undefined)
            => IF now >= cb.nextAttempt
               THEN /\ cbEvent'.kind = "admit"
                    /\ cb'.state = "HALF_OPEN"
                    /\ opInvoked' = opInvoked + 1
                    /\ calls'[cbEvent'.call].status = "running"
               ELSE cb'.state = "OPEN"
      ]_vars

\* C2 witness: a probe admitted exactly at nextAttempt.
C2_Witness ==
    /\ cbEvent.kind = "admit"
    /\ cb.state = "HALF_OPEN"
    /\ calls[cbEvent.call].admittedIn = "HALF_OPEN"
    /\ now = cb.nextAttempt

\* C3: a success while HALF_OPEN counts; the successThreshold-th success
\* since the breaker became HALF_OPEN closes it with failures and successes
\* at 0, an earlier one leaves it HALF_OPEN with the success counted.
C3_CloseAfterSuccesses ==
    [][ (CallSucceeded /\ cb.state = "HALF_OPEN")
            => /\ probeOk' = probeOk + 1
               /\ IF probeOk' >= successThreshold
                  THEN cb'.state = "CLOSED" /\ cb'.failures = 0 /\ cb'.successes = 0
                  ELSE cb'.state = "HALF_OPEN" /\ cb'.successes = probeOk'
      ]_vars

\* C3 witness: the successThreshold-th success has just closed the circuit.
C3_Witness ==
    /\ cbEvent.kind = "success"
    /\ cb.state = "CLOSED"
    /\ probeOk = successThreshold
    /\ cb.lastFailureTime # Undefined

\* C4: a failed call while HALF_OPEN opens the circuit at once, with
\* nextAttempt = time of the failure + recoveryTimeout and successes = 0,
\* whatever had been counted.
C4_ReopenOnFailure ==
    [][ (CallFailed /\ cb.state = "HALF_OPEN")
            => /\ cb'.state = "OPEN"
               /\ cb'.nextAttempt = now + recoveryTimeout
               /\ cb'.successes = 0
      ]_vars

\* C4 witness: a failure reopened a HALF_OPEN circuit that had counted
\* successes.
C4_Witness ==
    /\ cbEvent.kind \in {"failure", "timeout"}
    /\ cb.state = "OPEN"
    /\ probeOk > 0
    /\ cb.successes = 0
    /\ cb.nextAttempt = now + recoveryTimeout

\* C17: the first of the operation's result, its error and the timeout ends
\* an admitted call and records one outcome in the breaker: a success for the
\* result, a failure for the error and for the timeout (which comes no
\* sooner than `timeout` ms after the call's start); an operation that
\* settles after its timeout changes nothing in the breaker, and a call that
\* has ended gets no further outcome.  Every admitted call ends: one whose
\* timeout lies within the modelled time is eventually no longer running.
C17_OneOutcomePerCall ==
  /\ \A c \in CallIds :
        (calls[c].status = "running"
            /\ calls[c].start + timeout <= StartTime + MaxCBTicks * CBTickMs)
        ~> (calls[c].status # "running")
  /\
    [][ /\ cbEvent'.kind \in {"success", "failure", "timeout"}
            => /\ calls[cbEvent'.call].status = "running"
               /\ calls'[cbEvent'.call].status # "running"
               /\ \A d \in CallIds \ {cbEvent'.call} : calls'[d] = calls[d]
        /\ cbEvent'.kind = "success"
            => /\ cb'.lastSuccessTime = now
               /\ cb'.failures = 0
               /\ cb'.lastFailureTime = cb.lastFailureTime
        /\ cbEvent'.kind \in {"failure", "timeout"}
            => /\ cb'.failures = cb.failures + 1
               /\ cb'.lastFailureTime = now
               /\ cb'.lastSuccessTime = cb.lastSuccessTime
        /\ cbEvent'.kind = "timeout"
            => now >= calls[cbEvent'.call].start + timeout
        /\ cbEvent'.kind = "late"
            => /\ calls[cbEvent'.call].status = "abandoned"
               /\ cb' = cb
        /\ \A c \in CallIds :
               (calls[c].status # "running" /\ calls'[c].status # "running")
                   => (cb' = cb \/ cbEvent'.call # c)
      ]_vars

\* C17 witness: an operation has settled after its call timed out, and the
\* breaker holds the one failure the timeout recorded.
C17_Witness ==
    /\ cbEvent.kind = "late"
    /\ cb.failures = 1
    /\ cb.totalCalls = 1
    /\ cb.lastSuccessTime = Undefined

C19_OpenHasNextAttempt ==
    [][ /\ cb'.state = "OPEN" => cb'.nextAttempt # Undefined
        /\ (cb.state # "HALF_OPEN" /\ cb'.state = "HALF_OPEN")
            => /\ cb.state = "OPEN"
               /\ cb.nextAttempt # Undefined
               /\ now >= cb.nextAttempt
               /\ cbEvent'.kind = "admit"
      ]_vars

\* C19 witness: the breaker is HALF_OPEN with two calls in flight, one of
\* them admitted while it was CLOSED.
C19_Witness ==
    /\ cb.state = "HALF_OPEN"
    /\ now >= cb.nextAttempt
    /\ \E c, d \in CallIds :
           /\ calls[c].status = "running" /\ calls[c].admittedIn = "HALF_OPEN"
           /\ calls[d].status # "idle" /\ calls[d].admittedIn = "CLOSED"

\* C20: a success in CLOSED sets failures to 0 and leaves the breaker CLOSED,
\* and the breaker goes from CLOSED to OPEN only by a failure that makes
\* failureThreshold failures with no success between them.
C20_SuccessResetsFailures ==
    [][ /\ (CallSucceeded /\ cb.state = "CLOSED")
            => cb'.failures = 0 /\ cb'.state = "CLOSED"
        /\ (cb.state = "CLOSED" /\ cb'.state = "OPEN")
            => CallFailed /\ consec' >= failureThreshold
      ]_vars

\* C20 witness: a success in CLOSED has zeroed failureThreshold - 1 failures.
C20_Witness ==
    /\ cbEvent.kind = "success"
    /\ cbEvent.failuresBefore = failureThreshold - 1
    /\ cb.state = "CLOSED"
    /\ cb.failures = 0

(***************************************************************************)
(* Graceful degradation service: properties.                               *)
(***************************************************************************)
PrimaryFailed == gdOutcome.how \in {"cache", "fallback", "threw"}

\* C5: when primary fails and the latest earlier success under the same
\* cacheKey is at most 30 minutes old, the call returns the value of that
\* success and fallback is not invoked - whatever that value is.
C5_CachedValueServed ==
    (PrimaryFailed /\ gdOutcome.usable)
        => /\ gdOutcome.how = "cache"
           /\ gdOutcome.result = gdOutcome.expect
           /\ gdOutcome.fallbackCalls = 0

\* C6: when primary fails and no unexpired earlier success exists for the
\* cacheKey (or there is no cacheKey), fallback is invoked exactly once and,
\* unless it fails too, its result is returned; an accessor's result is then
\* the demo data tagged source = "mock" with a warning.
C6_FallbackTaggedMock ==
    (PrimaryFailed /\ ~gdOutcome.usable)
        => /\ gdOutcome.how \in {"fallback", "threw"}
           /\ gdOutcome.fallbackCalls = 1
           /\ (gdOutcome.how = "fallback" /\ gdOutcome.kind \in Accessors)
                => /\ gdOutcome.result.id = "mock"
                   /\ gdOutcome.result.source = "mock"
                   /\ gdOutcome.result.warning # ""

\* C7: a call whose primary and fallback both failed throws the error the
\* primary raised, not the fallback's.
C7_PrimaryErrorPropagates ==
    gdOutcome.how = "threw"
        => /\ gdOutcome.thrown = gdOutcome.primaryError
           /\ gdOutcome.thrown \in PrimaryErrors
           /\ gdOutcome.thrown \notin FallbackErrors

\* C7 witness: a call ended by throwing after its fallback was invoked.
C7_Witness ==
    /\ gdOutcome.how = "threw"
    /\ gdOutcome.fallbackCalls = 1
    /\ gdOutcome.primaryError = "primary error 2"

\* C15: an accessor's result that was substituted for a failed primary call
\* (from the internal store or from fallback) has a provenance source other
\* than "live", and the rows of a successful primary call are tagged "live".
C15_ProvenanceTellsLive ==
    gdOutcome.kind \in Accessors
        => /\ gdOutcome.how \in {"cache", "fallback"} => gdOutcome.result.source # "live"
           /\ (gdOutcome.how = "primary" /\ gdOutcome.result.n >= 1)
                => gdOutcome.result.source = "live"

KnownClearly(o) == ~o.known.written \/ o.known.ttl > 0

\* C9: a getCachedResult that overlaps no other and finds the key holding an unexpired value
\* returns it without invoking the producer; one that finds the key absent
\* or expired invokes the producer once and, unless the producer fails,
\* stores its result under the key and returns it.
C9_ProducerOncePerMiss ==
    (csOutcome.op = "getCachedResult" /\ csOutcome.alone /\ KnownClearly(csOutcome))
        => /\ csOutcome.known.before
                => /\ csOutcome.producerCalls = 0
                   /\ csOutcome.how = "returned"
                   /\ csOutcome.value = csOutcome.known.value
           /\ (~csOutcome.known.written \/ csOutcome.known.after)
                => /\ csOutcome.producerCalls = 1
                   /\ csOutcome.error \notin ProducerErrors
                        => csOutcome.how = "returned" /\ csOutcome.stored

\* C10: when the producer fails, getCachedResult fails with that error and
\* the cache's entries are as before; and when the key was absent then, the
\* next getCachedResult for it misses and invokes its producer.
C10_ProducerFailureUncached ==
    [][ /\ csEvent'.kind = "rejected"
            => /\ ncData' = ncData
               /\ csLastSet' = csLastSet
               /\ csOutcome'.op = "getCachedResult"
               /\ csOutcome'.how = "threw"
               /\ csOutcome'.error = csEvent'.error
        /\ ( /\ csOutcome.op = "getCachedResult"
             /\ csOutcome.how = "threw"
             /\ csOutcome.error \in ProducerErrors
             /\ csOutcome.kept
             /\ csEvent'.kind \in {"hit", "miss"}
             /\ csEvent'.key = csOutcome.key )
            => /\ csEvent'.kind = "miss"
               /\ csCalls'[csEvent'.call].phase = "producing"
      ]_vars

\* C10 witness: after a producer failure that left another key's entry in
\* place, the next getCachedResult for the key has invoked its producer.
C10_Witness ==
    /\ csOutcome.op = "getCachedResult"
    /\ csOutcome.how = "threw"
    /\ csOutcome.error = "producer error 2"
    /\ csEvent.kind = "miss"
    /\ csEvent.key = csOutcome.key
    /\ \E k \in CacheKeys : k # csOutcome.key /\ ncData[k].present

(***************************************************************************)
(* Budget analysis: properties.                                            *)
(***************************************************************************)
Range(list) == {list[j] : j \in 1..Len(list)}

\* C11: an analyzeAccountBudgets call whose N campaign analyses have all
\* settled, K >= 1 of them failing, does not fail and returns exactly the
\* analyses of the N - K campaigns whose analysis succeeded, each once.
C11_FailuresIsolated ==
    (abOutcome.ran /\ \E i \in 1..abOutcome.n : abOutcome.campaign[i].state = "failed")
        => /\ abOutcome.how = "returned"
           /\ Range(abOutcome.analyses) =
                  {i \in 1..abOutcome.n : abOutcome.campaign[i].state = "fulfilled"}
           /\ Len(abOutcome.analyses) = Cardinality(Range(abOutcome.analyses))

(***************************************************************************)
(* Account health: properties.                                             *)
(***************************************************************************)
\* The number of issues of a severity in the list.
Count(issues, severity) == Cardinality({j \in 1..Len(issues) : issues[j] = severity})

Penalty(issues) ==
    25 * Count(issues, "critical") + 15 * Count(issues, "high")
        + 8 * Count(issues, "medium") + 3 * Count(issues, "low")

\* C12: calculateHealthScore returns score = max(0, 100 - 25*critical -
\* 15*high - 8*medium - 3*low), within [0, 100], and the grade A from 90, B
\* from 80, C from 70, D from 60, else F; 1 critical and 2 high issues give
\* 45 and F, no issues give 100 and A.
C12_HealthScore ==
    hs.done
        => /\ hs.result.score =
                  (IF 100 - Penalty(hs.issues) > 0 THEN 100 - Penalty(hs.issues) ELSE 0)
           /\ hs.result.score \in 0..100
           /\ hs.result.grade = "A" <=> hs.result.score >= 90
           /\ hs.result.grade = "B" <=> hs.result.score \in 80..89
           /\ hs.result.grade = "C" <=> hs.result.score \in 70..79
           /\ hs.result.grade = "D" <=> hs.result.score \in 60..69
           /\ hs.result.grade = "F" <=> hs.result.score < 60
           /\ hs.issues = <<"critical", "high", "high">>
                => hs.result.score = 45 /\ hs.result.grade = "F"
           /\ hs.issues = <<>> => hs.result.score = 100 /\ hs.result.grade = "A"

\* C12 witness: the score of more issues than 100 points pay for is 0, F.
C12_Witness ==
    /\ hs.done
    /\ Penalty(hs.issues) > 100
    /\ hs.result.score = 0
    /\ hs.result.grade = "F"

(***************************************************************************)
(* Budget pacing: properties. The reference formulas are stated over the   *)
(* inputs in cents, as equations between integers.                         *)
(***************************************************************************)
\* The amount x in cents, when it is a whole number of cents.
InCents(x) == (100 * x.n) \div x.d

\* The amount x to two decimals, in cents (to the nearest cent).
RoundCents(x) == (200 * x.n + x.d) \div (2 * x.d)

\* x = num / den, for integers num and den > 0.
IsFraction(x, num, den) == x.n * den = num * x.d

\* C13: the analysis equals the reference formulas dailyBudget =
\* monthlyBudget / totalDaysInMonth, expectedSpendToDate = dailyBudget *
\* daysElapsed, spendVariance = currentSpend - expectedSpendToDate,
\* projectedMonthEndSpend = currentSpend + currentSpend / max(daysElapsed, 1)
\* * daysRemaining, projectedOverage = projectedMonthEndSpend -
\* monthlyBudget, recommendedDailyBudget = max(0, (monthlyBudget -
\* currentSpend) / max(daysRemaining, 1)); for (284.70, 1000, 10, 20, 30)
\* it gives 33.33, 333.33 and -48.63 to two decimals.
C13_ReferenceFormulas ==
    ba.done
        => LET S == InCents(ba.params.currentSpend)
               B == InCents(ba.params.monthlyBudget)
               E == ba.params.daysElapsed
               R == ba.params.daysRemaining
               T == ba.params.totalDaysInMonth
               M == IF E > 1 THEN E ELSE 1
               N == IF R > 1 THEN R ELSE 1
               a == ba.analysis
           IN  /\ IsFraction(a.dailyBudget, B, 100 * T)
               /\ IsFraction(a.expectedSpendToDate, B * E, 100 * T)
               /\ IsFraction(a.spendVariance, S * T - B * E, 100 * T)
               /\ IsFraction(a.projectedMonthEndSpend, S * (M + R), 100 * M)
               /\ IsFraction(a.projectedOverage, S * (M + R) - B * M, 100 * M)
               /\ IF B - S > 0
                  THEN IsFraction(a.recommendedDailyBudget, B - S, 100 * N)
                  ELSE a.recommendedDailyBudget.n = 0
               /\ (S = 28470 /\ B = 100000 /\ E = 10 /\ R = 20 /\ T = 30)
                    => /\ RoundCents(a.dailyBudget) = 3333
                       /\ RoundCents(a.expectedSpendToDate) = 33333
                       /\ RoundCents(a.spendVariance) = -4863

\* C13 witness: the analysis of (284.70, 1000, 10, 20, 30).
C13_Witness ==
    /\ ba.done
    /\ ba.params = [currentSpend |-> Rat(28470, 100), monthlyBudget |-> Whole(1000),
                    daysElapsed |-> 10, daysRemaining |-> 20, totalDaysInMonth |-> 30]
    /\ RoundCents(ba.analysis.dailyBudget) = 3333
    /\ RoundCents(ba.analysis.spendVariance) = -4863
    /\ RoundCents(ba.analysis.projectedMonthEndSpend) = 85410

\* |x| > k and |x| = k, for an integer k.
Exceeds(x, k) == Abs(x.n) > k * x.d
Equals(x, k) == Abs(x.n) = k * x.d

\* C14: riskLevel is CRITICAL iff |variance%| > 50 and daysRemaining < 5;
\* otherwise HIGH iff |variance%| > 30 and daysRemaining < 10; otherwise
\* MEDIUM iff |variance%| > 20; otherwise LOW. At exactly 50, 30 or 20
\* percent and at exactly 5 or 10 days the lower class applies.
C14_RiskLevel ==
    rl.done
        => LET v == rl.spendVariancePercentage
               D == rl.daysRemaining
               critical == Exceeds(v, 50) /\ D < 5
               high == ~critical /\ Exceeds(v, 30) /\ D < 10
               medium == ~critical /\ ~high /\ Exceeds(v, 20)
           IN  /\ rl.riskLevel = "CRITICAL" <=> critical
               /\ rl.riskLevel = "HIGH" <=> high
               /\ rl.riskLevel = "MEDIUM" <=> medium
               /\ rl.riskLevel = "LOW" <=> (~critical /\ ~high /\ ~medium)
               /\ (Equals(v, 50) /\ D < 5) => rl.riskLevel = "HIGH"
               /\ (Exceeds(v, 50) /\ D = 5) => rl.riskLevel = "HIGH"
               /\ (Equals(v, 30) /\ D < 10) => rl.riskLevel = "MEDIUM"
               /\ (Exceeds(v, 30) /\ D = 10) => rl.riskLevel = "MEDIUM"
               /\ Equals(v, 20) => rl.riskLevel = "LOW"

\* C14 witness: a variance of exactly -50 % with 4 days left is HIGH.
C14_Witness ==
    /\ rl.done
    /\ rl.spendVariancePercentage = Whole(-50)
    /\ rl.daysRemaining = 4
    /\ rl.riskLevel = "HIGH"

\* The namespace holds maxKeys unexpired entries and none under `key`.
NewKeyAtCapacity(key) ==
    /\ ~ncData[key].present
    /\ Cardinality({k \in CacheKeys : ncData[k].present /\ check(ncData[k], now)}) = maxKeys

\* C16: a set of a new key while the namespace holds maxKeys unexpired
\* entries succeeds: the new value is stored and an existing entry is
\* evicted.
C16_EvictsAtMaxKeys ==
    [][ (csEvent'.kind = "set" /\ NewKeyAtCapacity(csEvent'.key))
            => /\ csOutcome'.how = "returned"
               /\ ncData'[csEvent'.key].present
               /\ ncData'[csEvent'.key].v = csOutcome'.value
               /\ \E k \in CacheKeys : ncData[k].present /\ ~ncData'[k].present
      ]_vars

\* C21: an entry written without a ttl argument, or with a positive one, is
\* gone once its ttl - the argument, else the namespace's configured ttl -
\* has passed since its insertion: a get after that time returns undefined.
C21_EveryEntryExpires ==
    (csOutcome.op = "get" /\ csOutcome.known.written /\ csOutcome.known.ttl # 0
        /\ csOutcome.known.after)
        => csOutcome.value = Absent

\* A defined finite number: not NaN, not an infinity.
IsNumber(x) == x.d > 0

\* C22: for every input of the budget analysis, monthlyBudget = 0 and
\* currentSpend = 0 included, spendVariancePercentage,
\* projectedMonthEndSpend, recommendedDailyBudget,
\* budgetAdjustmentPercentage and urgencyScore are defined finite numbers and
\* urgencyScore lies in [0, 100].
C22_AnalysisTotal ==
    ba.done
        => /\ IsNumber(ba.analysis.spendVariancePercentage)
           /\ IsNumber(ba.analysis.projectedMonthEndSpend)
           /\ IsNumber(ba.analysis.recommendedDailyBudget)
           /\ IsNumber(ba.analysis.budgetAdjustmentPercentage)
           /\ IsNumber(ba.analysis.urgencyScore)
           /\ ba.analysis.urgencyScore.n >= 0
           /\ ba.analysis.urgencyScore.n <= 100 * ba.analysis.urgencyScore.d

\* C23: every account's priorityScore is a defined number in [0, 100] - the
\* account without analysed campaigns and the one with a total budget of 0
\* too - and it is min(100, urgentCampaigns * 20 + min(40, opportunityValue
\* / totalBudget * 100) + riskPoints); the list returned is in
\* non-increasing order of priorityScore.
C23_PriorityScore ==
    pr.phase = "done"
        => /\ \A j \in 1..Len(pr.result) :
                 LET p == pr.result[j]
                 IN  /\ IsNumber(p.priorityScore)
                     /\ p.priorityScore.n >= 0
                     /\ p.priorityScore.n <= 100 * p.priorityScore.d
           /\ \A j \in 1..(Len(pr.result) - 1) :
                 ~RatLess(pr.result[j].priorityScore, pr.result[j + 1].priorityScore)

\* C24: the accessors' primary failures are recorded by the 'google-ads-api'
\* breaker, so after failureThreshold primary failures in a row (no primary
\* success since, the breaker cannot have closed again)
\* isGoogleAdsServiceAvailable() returns false.
C24_FailuresReachBreaker ==
    (av.event = "asked" /\ av.primaryFailures >= failureThreshold)
        => /\ ~av.available
           /\ cb.failures >= failureThreshold

\* The age of the store's entry for key k.
EntryAge(k) == now - gdCache[k].timestamp

\* C25: a stored value is returned on primary failure only while its entry
\* is at most 30 minutes old; a primary success under a key stores the
\* result with the time of that success; the sweep deletes exactly the
\* entries older than 30 minutes, and no step of a sweep or a call removes
\* an entry that is not older than 30 minutes.
C25_StoreExpiry ==
    [][ /\ \A c \in GDCallIds :
              (gdCalls[c].phase = "primary" /\ gdCalls'[c].phase = "idle")
                  => /\ gdOutcome'.how = "cache"
                          => /\ gdCache[gdCalls[c].key].present
                             /\ EntryAge(gdCalls[c].key) <= CACHE_TTL
                             /\ gdOutcome'.result = gdCache[gdCalls[c].key].data
                             /\ gdCache' = gdCache
                     /\ (gdOutcome'.how = "primary" /\ TruthyKey(gdCalls[c].key))
                          => gdCache'[gdCalls[c].key] =
                                 [present |-> TRUE, data |-> gdOutcome'.result,
                                  timestamp |-> now]
        /\ \A k \in GDKeys :
              (gdCache[k].present /\ ~gdCache'[k].present) => EntryAge(k) > CACHE_TTL
        /\ (gdCalls' = gdCalls /\ gdCache' # gdCache)
              => \A k \in GDKeys :
                     gdCache'[k] = IF gdCache[k].present /\ EntryAge(k) > CACHE_TTL
                                   THEN NoEntry ELSE gdCache[k]
      ]_vars

\* C25 witness: the only call made succeeded and stored its result, the
\* entry grew older than 30 minutes and a sweep has deleted it.
C25_Witness ==
    /\ gdStarted = 1
    /\ \A c \in GDCallIds : gdCalls[c].phase = "idle"
    /\ gdOutcome.how = "primary"
    /\ gdLast["k1"].some
    /\ now - gdLast["k1"].time > CACHE_TTL
    /\ ~gdCache["k1"].present

\* C26: the outcome of a call admitted while the breaker was CLOSED that
\* comes while the breaker is HALF_OPEN (the operation settling before the
\* call's timeout, or the timeout when it is due) leaves successes and the state as they
\* were: it neither counts toward successThreshold nor reopens the circuit.
C26_OnlyProbesDriveHalfOpen ==
    [][ \A c \in CallIds :
          ( /\ cbEvent'.call = c
            /\ \/ cbEvent'.kind \in {"success", "failure"} /\ now < calls[c].start + timeout
               \/ cbEvent'.kind = "timeout" /\ now = calls[c].start + timeout
            /\ calls[c].status = "running"
            /\ calls[c].admittedIn = "CLOSED"
            /\ cb.state = "HALF_OPEN" )
              => /\ cb'.successes = cb.successes
                 /\ cb'.state = "HALF_OPEN"
      ]_vars

\* C27: a request carrying a token that invalidateToken was called with is
\* answered 403 and does not reach the handler, whatever other tokens were
\* invalidated before or after it.
C27_InvalidatedStaysRejected ==
    au.last.invalidatedBefore => (au.last.status = 403 /\ ~au.last.reached)

\* C28: for every sequence of stream events a streamChatCompletion call
\* runs at most one of onComplete / onError, at most once, with no onChunk
\* after it, and exactly one once the stream is over; so the route stores
\* at most one assistant message and ends the response once.
C28_OneCompletion ==
    /\ st.callbacks.onComplete + st.callbacks.onError <= 1
    /\ st.callbacks.chunksAfterEnd = 0
    /\ st.callbacks.assistantMessages <= 1
    /\ st.callbacks.resEnd <= 1
    /\ st.phase = "closed"
          => /\ st.callbacks.onComplete + st.callbacks.onError = 1
             /\ st.callbacks.resEnd = 1

\* What the store serves for key k at the current time after a step.
ServedAfter(k) == getCache(gdCache', k, now').value

IssuesOn(issues, metric) == Len(SelectSeq(issues, LAMBDA i : i.metric = metric))

\* The campaigns whose metrics arrived before the first rejected metrics
\* call of detectPerformanceIssues.
ReachedCampaigns ==
    IF di.performance.account = "found" /\ di.performance.campaigns.ok
    THEN {j \in 1..Len(di.performance.campaigns.value) :
             \A i \in 1..j : di.performance.campaigns.value[i].ok}
    ELSE {}

MetricsOf(j) == di.performance.campaigns.value[j].value

\* Every data-source and analysis call of the detection failed.
AllSourcesFailed ==
    /\ ~di.budget.ok
    /\ ~di.performance.campaigns.ok
    /\ di.quality = "rejected"

====
